---- MODULE Spec2Model ----
(***************************************************************************)
(* Analysis orchestration pipeline of the market-intelligence service:     *)
(* AnalysisService.analyze (conversation-scoped result cache with a        *)
(* 30-minute freshness window) on top of SynthesisAgent.analyze (fan-out   *)
(* to three specialist analyzers, fan-in, one synthesis model call).       *)
(*                                                                         *)
(* Numbers.  Confidences and risk scores are Python floats in the source.  *)
(* Here every such value is an integer number of thirtieths: 0.5 is 15,    *)
(* 1.0 is 30.  Analyzer confidences are drawn from whole tenths (multiples *)
(* of 3), so the mean of three of them is again a whole number of          *)
(* thirtieths and sum/len is exact.                                        *)
(*                                                                         *)
(* Time.  Instants are counted in ticks of TickMinutes minutes.  The       *)
(* program reads the clock (datetime.now()) at two places: the lookup and  *)
(* the cache write.  `now` is the last instant read; each read returns any *)
(* instant from `now` on.                                                  *)
(***************************************************************************)
EXTENDS Integers, Sequences, FiniteSets, TLC

----------------------------------------------------------------------------
(* Bounds of the model *)

\* last instant the clock can show, in ticks
MaxTime == 4
\* number of analyze requests in one behaviour
MaxCalls == 2
\* minutes per clock tick
TickMinutes == 10

----------------------------------------------------------------------------
(* Program constants *)

\* timedelta(minutes=30)
FRESH_MINUTES == 30
\* 1 in `risk_score = 1 - overall_confidence`, in thirtieths
ONE == 30
\* default of result.get("confidence", 0.5), in thirtieths
DEFAULT_CONFIDENCE == 15
\* risk_score=0.5 of an analysis rebuilt from the cache, in thirtieths
CACHED_RISK_SCORE == 15
\* thresholds of _get_risk_level, in thirtieths
RISK_VERY_LOW_BELOW == 6
RISK_LOW_BELOW == 12
RISK_MEDIUM_BELOW == 18
RISK_HIGH_BELOW == 24

----------------------------------------------------------------------------
(* Python values *)

\* Python's None
None == [py |-> "None"]

\* dict.get(key, default)
Get(d, k, default) == IF k \in DOMAIN d THEN d[k] ELSE default

\* the empty dict
EmptyDict == [k \in {} |-> None]

\* d[key] = value
DictSet(d, key, value) ==
    [k \in DOMAIN d \cup {key} |-> IF k = key THEN value ELSE d[k]]

\* del d[key]
DictDel(d, key) == [k \in DOMAIN d \ {key} |-> d[k]]

\* datetime.isoformat() and datetime.fromisoformat(): a string that carries
\* the instant, and its parse
IsoFormat(t) == <<"iso", t>>
FromIsoFormat(s) == s[2]

----------------------------------------------------------------------------
(* Enumerations: <<value, member>> *)

MarketOutlookMembers ==
    { <<"extremely_bearish", "EXTREMELY_BEARISH">>, <<"bearish", "BEARISH">>,
      <<"neutral", "NEUTRAL">>, <<"bullish", "BULLISH">>,
      <<"extremely_bullish", "EXTREMELY_BULLISH">> }

TradingActionMembers ==
    { <<"strong_buy", "STRONG_BUY">>, <<"buy", "BUY">>, <<"hold", "HOLD">>,
      <<"sell", "SELL">>, <<"strong_sell", "STRONG_SELL">>, <<"wait", "WAIT">> }

RiskLevelMembers ==
    { <<"very_low", "VERY_LOW">>, <<"low", "LOW">>, <<"medium", "MEDIUM">>,
      <<"high", "HIGH">>, <<"very_high", "VERY_HIGH">> }

\* Enum(value): the member with that value, or ValueError
EnumOf(members, v) ==
    IF \E p \in members : p[1] = v
    THEN (CHOOSE p \in members : p[1] = v)[2]
    ELSE "ValueError"

\* member.value
EnumValue(members, m) == (CHOOSE p \in members : p[2] = m)[1]

MarketOutlook(v) == EnumOf(MarketOutlookMembers, v)
TradingAction(v) == EnumOf(TradingActionMembers, v)

Names(members) == { p[2] : p \in members }

----------------------------------------------------------------------------
(* Inputs *)

Branches == {"macro", "technical", "sentiment"}

\* a request without conversation_id (None or the empty string: both falsy)
NoConversation == << >>

Conversations == { NoConversation, <<"c", "1">> }
Assets == { <<"B", "T", "C">> }
Queries == { "q1", "q2" }

\* what one analyzer coroutine can end with: a dict with a confidence, a
\* dict without one, or an exception.  The confidences are 0.6, 1.0 and
\* -3.0: the macro analyst caps its blended confidence at 1.0 and has no
\* floor (macro_analyst.py, lines 421-437), so a model-stated -5.0 with no
\* evidence is reported as -3.0
AnalyzerException == [exception |-> "boom"]
AnalyzerDict(c) == [agent_name |-> "analyst", summary |-> "s", confidence |-> c]
AnalyzerDictNoConfidence == [agent_name |-> "analyst", summary |-> "s"]
AnalyzerOutcomes ==
    { AnalyzerDict(18), AnalyzerDict(-90), AnalyzerDictNoConfidence, AnalyzerException }

\* what the synthesis model call can end with: an exception, text that is
\* no JSON, JSON that is no object, or a JSON object
LlmFailure == [kind |-> "raise"]
LlmMalformed == [kind |-> "text", text |-> "raw text"]
LlmNonObject == [kind |-> "json", value |-> [list |-> "[1, 2]"], object |-> FALSE]
LlmObject(v) == [kind |-> "json", value |-> v, object |-> TRUE]
LlmFull ==
    LlmObject([executive_summary |-> "summary", investment_thesis |-> "thesis",
               outlook |-> "bullish", trading_action |-> "buy"])
LlmSparse == LlmObject([executive_summary |-> "summary"])
LlmBadOutlook ==
    LlmObject([executive_summary |-> "summary", investment_thesis |-> "thesis",
               outlook |-> "sideways", trading_action |-> "buy"])
LlmBadAction ==
    LlmObject([executive_summary |-> "summary", investment_thesis |-> "thesis",
               outlook |-> "bearish", trading_action |-> "accumulate"])
LlmOutcomes ==
    { LlmFailure, LlmMalformed, LlmNonObject, LlmFull, LlmSparse, LlmBadOutlook,
      LlmBadAction }

----------------------------------------------------------------------------
VARIABLES
    now,              \* the last instant read from the clock, in ticks
    cache,            \* AnalysisService._analysis_cache: key -> entry
    pc,               \* position of the request in AnalysisService.analyze
    state,            \* position of the request in SynthesisAgent.analyze
    request,          \* query, asset_symbol, conversation_id of the request
    cached_analysis,  \* analyze's local: the entry the lookup returned
    tasks,            \* the three analyzer coroutines and their results
    response,         \* what the synthesis model call ended with
    analysis,         \* the Analysis the request produced
    stored,           \* outcome of the request's database write
    invoked,          \* analyzers the request has started
    llm_calls,        \* synthesis model calls the request has made
    ncalls,           \* requests started so far
    seen_age          \* age in ticks of the entry cached for the request's
                      \* key when the request arrived; -1 if there was none

\* the variables of AnalysisService.analyze and SynthesisAgent.analyze
serviceVars == << now, cache, pc, state, request, cached_analysis, tasks,
                  response, analysis, stored, invoked, llm_calls, ncalls,
                  seen_age >>

VARIABLES
    score,            \* the risk_score a call of _get_risk_level is given
    level             \* what the call returned; "None" before it has

riskVars == << score, level >>

VARIABLES
    agent_input,      \* a specialist analyzer's call: the agent, its context
                      \* and what each thing it depends on will do
    agent_result      \* what analyze ended with; None before it has

analyzerVars == << agent_input, agent_result >>

VARIABLES
    sources,          \* DataOrchestrator.sources: key -> descriptor
    stats,            \* DataOrchestrator.stats, its three update counters
    running,          \* DataOrchestrator.running
    jobs,             \* ids of the jobs the scheduler holds
    run,              \* the update_all_sources call in progress, if any
    calls,            \* the update_source coroutines, by origin and key
    nruns,            \* update_all_sources calls started so far
    ndirect           \* other update_source dispatches started so far

orchestratorVars == << sources, stats, running, jobs, run, calls, nruns, ndirect >>

VARIABLES
    initialized,      \* RAGService.initialized
    collections,      \* the keys of RAGService.collections
    chroma,           \* the ids each collection of the store holds
    rag,              \* the last call of the adapter: its arguments, what
                      \* the store did and what the call ended with
    nrag              \* calls of the adapter so far

ragVars == << initialized, collections, chroma, rag, nrag >>

VARIABLES
    backend,          \* the cache manager get_cache() returns
    kv,               \* what the manager holds: key -> entry
    written,          \* the instant cache_analysis last wrote each key
    kvcall            \* the last call of cache_analysis or get_cached_analysis

kvVars == << backend, kv, written, kvcall >>

\* what a step of the analysis service leaves alone
\* TechnicalAnalyst._collect_technical_data: where the call is, the price
\* feeds it has queried so far, in order, and how it ended
VARIABLES collect
feedVars == << collect >>

\* NewsAggregator._fetch_page under retry_on_failure: where the wrapper is,
\* the attempts made, the delays slept, in order, and how the call ended
VARIABLES fetch
retryVars == << fetch >>

\* the operations started on one RAGService: where each is in initialize,
\* and how often the client, the embedding model and the collections have
\* been created
VARIABLES ops, made
initVars == << ops, made >>

stepVars == << feedVars, retryVars, initVars >>

outsideService == << riskVars, analyzerVars, orchestratorVars, ragVars, kvVars, stepVars >>

vars == << serviceVars, riskVars, analyzerVars, orchestratorVars, ragVars, kvVars, stepVars >>

NotStarted == [task |-> "created"]
Running == [task |-> "running"]

NoRequest == [query |-> "", asset_symbol |-> << >>, conversation_id |-> NoConversation,
              context |-> None]

----------------------------------------------------------------------------
(* Analysis entity *)

\* an entity that validates nothing
PostInitSkipped(overall_confidence, risk_score) == TRUE

\* Analysis.__post_init__
PostInitOk(overall_confidence, risk_score) ==
    /\ 0 <= overall_confidence /\ overall_confidence <= ONE
    /\ 0 <= risk_score /\ risk_score <= ONE

\* Analysis.to_dict
ToDict(a) ==
    [ query |-> a.query,
      asset_symbol |-> a.asset_symbol,
      executive_summary |-> a.executive_summary,
      investment_thesis |-> a.investment_thesis,
      outlook |-> EnumValue(MarketOutlookMembers, a.outlook),
      overall_confidence |-> a.overall_confidence,
      risk_level |-> EnumValue(RiskLevelMembers, a.risk_level),
      risk_score |-> a.risk_score,
      trading_action |-> EnumValue(TradingActionMembers, a.trading_action),
      position_sizing |-> a.position_sizing,
      macro_analysis |-> a.macro_analysis,
      technical_analysis |-> a.technical_analysis,
      sentiment_analysis |-> a.sentiment_analysis ]

----------------------------------------------------------------------------
(* SynthesisAgent *)

\* buckets that are open below and closed above
GetRiskLevelClosedAbove(risk_score) ==
    IF risk_score <= RISK_VERY_LOW_BELOW THEN "VERY_LOW"
    ELSE IF risk_score <= RISK_LOW_BELOW THEN "LOW"
    ELSE IF risk_score <= RISK_MEDIUM_BELOW THEN "MEDIUM"
    ELSE IF risk_score <= RISK_HIGH_BELOW THEN "HIGH"
    ELSE "VERY_HIGH"

\* SynthesisAgent._get_risk_level
GetRiskLevel(risk_score) ==
    IF risk_score < RISK_VERY_LOW_BELOW THEN "VERY_LOW"
    ELSE IF risk_score < RISK_LOW_BELOW THEN "LOW"
    ELSE IF risk_score < RISK_MEDIUM_BELOW THEN "MEDIUM"
    ELSE IF risk_score < RISK_HIGH_BELOW THEN "HIGH"
    ELSE "VERY_HIGH"

\* lines 91-93: an exception that gather returned becomes {"error": str(e)}
HandleError(result) ==
    IF "exception" \in DOMAIN result THEN [error |-> result.exception] ELSE result

\* the parse of _synthesize_results: json.loads, and the dict built when it
\* raises JSONDecodeError
ParseSynthesis(llm_response) ==
    IF llm_response.kind = "text"
    THEN [executive_summary |-> llm_response.text, outlook |-> "neutral", confidence |-> 18]
    ELSE llm_response.value

\* lines 133-137
Confidences(results) ==
    << Get(results["macro"], "confidence", DEFAULT_CONFIDENCE),
       Get(results["technical"], "confidence", DEFAULT_CONFIDENCE),
       Get(results["sentiment"], "confidence", DEFAULT_CONFIDENCE) >>

RECURSIVE Sum(_)
Sum(s) == IF s = << >> THEN 0 ELSE Head(s) + Sum(Tail(s))

\* line 138: sum(confidences) / len(confidences)
OverallConfidence(results) == Sum(Confidences(results)) \div Len(Confidences(results))

\* line 141
RiskScore(overall_confidence) == ONE - overall_confidence

\* AgentAnalysis(...) of lines 105-130
AgentAnalysis(result) ==
    [summary |-> Get(result, "summary", ""),
     confidence |-> Get(result, "confidence", DEFAULT_CONFIDENCE)]

\* lines 104-168: the Analysis built from the normalised results and the
\* synthesis dict, or None when building it raises
BuildAnalysis(query, context, results, synthesis) ==
    LET overall == OverallConfidence(results)
        risk == RiskScore(overall)
        outlook == MarketOutlook(Get(synthesis, "outlook", "neutral"))
        action == TradingAction(Get(synthesis, "trading_action", "hold"))
    IN  IF outlook = "ValueError" \/ action = "ValueError" \/ ~PostInitOk(overall, risk)
        THEN None
        ELSE [ query |-> query,
               asset_symbol |-> context.asset_symbol,
               executive_summary |-> Get(synthesis, "executive_summary", ""),
               investment_thesis |-> Get(synthesis, "investment_thesis", ""),
               outlook |-> outlook,
               overall_confidence |-> overall,
               risk_level |-> GetRiskLevel(risk),
               risk_score |-> risk,
               trading_action |-> action,
               position_sizing |-> Get(synthesis, "position_sizing", "small"),
               macro_analysis |-> AgentAnalysis(results["macro"]),
               technical_analysis |-> AgentAnalysis(results["technical"]),
               sentiment_analysis |-> AgentAnalysis(results["sentiment"]) ]

\* what SynthesisAgent.analyze ends with once the model call has ended with
\* `llm_response`: an Analysis, or None when it raises
SynthesisResult(query, context, results, llm_response) ==
    IF llm_response.kind = "raise" THEN None
    ELSE IF llm_response.kind = "json" /\ ~llm_response.object THEN None
    ELSE BuildAnalysis(query, context, results, ParseSynthesis(llm_response))

----------------------------------------------------------------------------
(* AnalysisService: the conversation cache *)

\* f"{conversation_id}:{asset_symbol}"
CacheKey(conversation_id, asset_symbol) == conversation_id \o <<":">> \o asset_symbol

\* a freshness test that already rejects an entry aged exactly 30 minutes
IsStaleAtThreshold(entry, t) ==
    (t - FromIsoFormat(entry.timestamp)) * TickMinutes >= FRESH_MINUTES

\* line 247: age > timedelta(minutes=30)
IsStale(entry, t) ==
    (t - FromIsoFormat(entry.timestamp)) * TickMinutes > FRESH_MINUTES

\* a lookup that returns the entry whatever its age
GetCachedAnalysisIgnoringAge(c, conversation_id, asset_symbol, t) ==
    LET key == CacheKey(conversation_id, asset_symbol)
    IN  IF key \notin DOMAIN c THEN None ELSE c[key]

\* _get_cached_analysis_for_conversation: the value it returns
GetCachedAnalysis(c, conversation_id, asset_symbol, t) ==
    LET key == CacheKey(conversation_id, asset_symbol)
    IN  IF key \notin DOMAIN c THEN None
        ELSE IF IsStale(c[key], t) THEN None
        ELSE c[key]

\* a lookup that leaves a stale entry in place
CacheAfterLookupKeepsStale(c, conversation_id, asset_symbol, t) == c

\* _get_cached_analysis_for_conversation: the cache it leaves
CacheAfterLookup(c, conversation_id, asset_symbol, t) ==
    LET key == CacheKey(conversation_id, asset_symbol)
    IN  IF key \in DOMAIN c /\ IsStale(c[key], t) THEN DictDel(c, key) ELSE c

\* the entry _cache_analysis_for_conversation builds
CacheEntry(a, t) ==
    [ timestamp |-> IsoFormat(t),
      outlook |-> EnumValue(MarketOutlookMembers, a.outlook),
      confidence |-> a.overall_confidence,
      trading_action |-> EnumValue(TradingActionMembers, a.trading_action),
      technical_score |-> IF a.technical_analysis # None
                          THEN a.technical_analysis.confidence ELSE DEFAULT_CONFIDENCE,
      sentiment_score |-> IF a.sentiment_analysis # None
                          THEN a.sentiment_analysis.confidence ELSE DEFAULT_CONFIDENCE,
      fundamental_score |-> IF a.macro_analysis # None
                            THEN a.macro_analysis.confidence ELSE DEFAULT_CONFIDENCE,
      analysis_dict |-> ToDict(a) ]

\* a write that does not look at conversation_id
CacheAfterAnalysisUnscoped(c, conversation_id, asset_symbol, a, t) ==
    DictSet(c, CacheKey(conversation_id, asset_symbol), CacheEntry(a, t))

\* a pipeline run that forgets the write
CacheAfterAnalysisSkipped(c, conversation_id, asset_symbol, a, t) == c

\* lines 102-105: the cache after a pipeline run that returned `a`
CacheAfterAnalysis(c, conversation_id, asset_symbol, a, t) ==
    IF conversation_id # NoConversation
    THEN DictSet(c, CacheKey(conversation_id, asset_symbol), CacheEntry(a, t))
    ELSE c

\* key.startswith(prefix)
StartsWith(key, prefix) ==
    Len(key) >= Len(prefix) /\ SubSeq(key, 1, Len(prefix)) = prefix

\* clear_cache_for_context, lines 218-223: the cache it leaves
ClearCacheForContext(c, conversation_id) ==
    LET keys_to_delete == { k \in DOMAIN c : StartsWith(k, conversation_id \o <<":">>) }
    IN  [ k \in DOMAIN c \ keys_to_delete |-> c[k] ]

\* skip_fields without 'query'
SkipFieldsWithoutQuery ==
    { "created_at", "updated_at", "outlook", "trading_action", "risk_level",
      "macro_analysis", "technical_analysis", "sentiment_analysis" }

\* skip_fields of _create_analysis_from_cache
SkipFields ==
    { "query", "created_at", "updated_at", "outlook", "trading_action", "risk_level",
      "macro_analysis", "technical_analysis", "sentiment_analysis" }

\* the Analysis(...) of lines 335-348
FallbackAnalysis(query, asset_symbol) ==
    [ query |-> query,
      asset_symbol |-> asset_symbol,
      executive_summary |-> "neutral",
      investment_thesis |-> "Based on previous analysis",
      outlook |-> "NEUTRAL",
      overall_confidence |-> DEFAULT_CONFIDENCE,
      risk_level |-> "MEDIUM",
      risk_score |-> CACHED_RISK_SCORE,
      trading_action |-> "HOLD",
      position_sizing |-> "medium",
      macro_analysis |-> None,
      technical_analysis |-> None,
      sentiment_analysis |-> None ]

\* the Analysis(...) of lines 299-312
AnalysisOfEntry(query, asset_symbol, entry) ==
    [ query |-> query,
      asset_symbol |-> asset_symbol,
      executive_summary |-> Get(entry, "outlook", "neutral"),
      investment_thesis |-> "Based on previous analysis",
      outlook |-> MarketOutlook(Get(entry, "outlook", "neutral")),
      overall_confidence |-> Get(entry, "confidence", DEFAULT_CONFIDENCE),
      risk_level |-> "MEDIUM",
      risk_score |-> CACHED_RISK_SCORE,
      trading_action |-> TradingAction(Get(entry, "trading_action", "hold")),
      position_sizing |-> "medium",
      macro_analysis |-> None,
      technical_analysis |-> None,
      sentiment_analysis |-> None ]

\* lines 321-327: the fields of analysis_dict copied over the new Analysis
CopyFields(a, analysis_dict) ==
    [ k \in DOMAIN a |->
        IF k \in DOMAIN analysis_dict /\ k \notin SkipFields
        THEN analysis_dict[k] ELSE a[k] ]

\* _create_analysis_from_cache
CreateAnalysisFromCache(query, asset_symbol, entry) ==
    LET a == AnalysisOfEntry(query, asset_symbol, entry)
    IN  IF \/ a.outlook = "ValueError"
           \/ a.trading_action = "ValueError"
           \/ ~PostInitOk(a.overall_confidence, a.risk_score)
        THEN FallbackAnalysis(query, asset_symbol)
        ELSE CopyFields(a, Get(entry, "analysis_dict", EmptyDict))

----------------------------------------------------------------------------
(* A call of SynthesisAgent._get_risk_level on its own *)

\* the risk scores the call is tried on run from -MaxRiskScore to
\* MaxRiskScore thirtieths; 0.2 is 6, the nearest score below it is 5
MaxRiskScore == 60

RiskScores == -MaxRiskScore .. MaxRiskScore

\* before the call
RiskIdle ==
    /\ score = 0
    /\ level = "None"

----------------------------------------------------------------------------
(* Specialist analyzers: MacroAnalyst.analyze and TechnicalAnalyst.analyze   *)
(* Their confidences are integers in hundredths here: 0.3 is 30, 1.0 is 100. *)

HUNDRED == 100
\* confidence of the macro analyzer's answer when analyze itself fails
MACRO_FAILED_CONFIDENCE == 10
\* ... when the model call or the handling of its answer fails
MACRO_LLM_FAILED_CONFIDENCE == 30
\* ... when the model's answer is not JSON
MACRO_PARSE_FAILED_CONFIDENCE == 30
\* ... when the model's answer states none
MACRO_DEFAULT_CONFIDENCE == 50
\* weights, in tenths, of the stated confidence and of the data quality
CONFIDENCE_WEIGHT == 6
QUALITY_WEIGHT == 4
\* weights of one indicator, one news article and one document in the data
\* quality, in hundredths of the quality
INDICATOR_WEIGHT == 4
NEWS_WEIGHT == 4
RAG_WEIGHT == 2
\* _collect_crypto_news_data returns the first ten articles
NEWS_LIMIT == 10
\* confidence of the technical analyzer's answer when analyze fails
TECHNICAL_FAILED_CONFIDENCE == 0
\* ... when the model's answer is not JSON
TECHNICAL_PARSE_FAILED_CONFIDENCE == 60
\* ... when the model's answer states none
TECHNICAL_DEFAULT_CONFIDENCE == 70

\* how a call ends: by raising or by returning a value
Raise(e) == [exception |-> e]
Return(v) == [value |-> v]
IsRaise(x) == "exception" \in DOMAIN x

\* Python's truth value of `context`, which is None or a dict
Truthy(context) == context # None /\ DOMAIN context # {}

\* the contexts analyze is called with
Contexts == { None, EmptyDict, [asset_symbol |-> "BTC"] }

\* what the translation service does with a call
TranslationOutcomes == { "ok", "raise" }

\* TranslationService.translate_text
TranslateText(text, translation) ==
    IF translation = "raise" THEN Raise("translation failed")
    ELSE Return(<<"translated", text>>)

\* an evidence source (FRED, the news scraper, Binance, CoinGecko) fails or
\* returns so many items
EvidenceOutcomes == { Raise("unavailable"), Return(0), Return(5), Return(12) }

\* the vector store: whether initialize succeeds, and the number of
\* documents a collection query finds
VectorStores == [initialize : {"ok", "raise"}, documents : {0, 3}]

\* RAGService.query_collection, lines 376-430: it raises only when
\* initialize does
QueryCollection(store) ==
    IF store.initialize = "raise" THEN Raise("initialize failed")
    ELSE Return(store.documents)

\* what the analyzer's model call ends with
AgentLlmOutcomes ==
    { LlmFailure, LlmMalformed, LlmNonObject,
      LlmObject([summary |-> "view", confidence |-> 80]),
      LlmObject([summary |-> "view", confidence |-> -40]),
      LlmObject([summary |-> "view"]),
      LlmObject([confidence |-> 80]) }

MacroInputs ==
    [agent : {"macro"}, query : {"q1"}, context : Contexts,
     translation : TranslationOutcomes, fred : EvidenceOutcomes,
     news : EvidenceOutcomes, store : VectorStores, llm : AgentLlmOutcomes]

TechnicalInputs ==
    [agent : {"technical"}, query : {"q1"}, context : Contexts,
     translation : TranslationOutcomes, binance : {Raise("unavailable"), Return(5)},
     coingecko : {Raise("unavailable"), Return(5)},
     store : VectorStores, llm : AgentLlmOutcomes]

\* MacroAnalyst._collect_economic_data and _get_crypto_fallback_economic_data
CollectEconomicData(fred) ==
    IF IsRaise(fred)
    THEN [fed_funds_rate |-> "5.5", inflation_cpi |-> "324.0",
          dollar_index |-> "105.0", treasury_yield_10y |-> "4.0",
          data_quality |-> "estimated_fallback", timestamp |-> "fixed",
          note |-> "Fallback data for crypto macro analysis"]
    ELSE [fed_funds_rate |-> "fetched", inflation_cpi |-> "fetched",
          dollar_index |-> "fetched", treasury_yield_10y |-> "fetched",
          data_quality |-> "fetched", timestamp |-> "fetched"]

\* MacroAnalyst._collect_crypto_news_data: the number of articles returned
CollectCryptoNewsData(news) ==
    IF IsRaise(news) THEN 0
    ELSE IF news.value > NEWS_LIMIT THEN NEWS_LIMIT ELSE news.value

\* MacroAnalyst._get_crypto_rag_documents: the number of documents returned
GetCryptoRagDocuments(store) ==
    IF IsRaise(QueryCollection(store)) THEN 0 ELSE QueryCollection(store).value

\* MacroAnalyst._create_crypto_fallback_macro_analysis
CreateCryptoFallbackMacroAnalysis(asset_symbol) ==
    [summary |-> "Limited crypto macroeconomic analysis available",
     monetary_policy_impact |-> "neutral",
     confidence |-> MACRO_LLM_FAILED_CONFIDENCE,
     metadata |-> [crypto_data_quality_score |-> 0, fallback_analysis |-> TRUE]]

\* MacroAnalyst._parse_llm_response on a response the model returned: the
\* dict parsed, the dict that stands in for text that is not JSON, or the
\* TypeError of assigning a field of a JSON value that is no object
ParseLlmResponse(llm_response) ==
    IF llm_response.kind = "text"
    THEN Return([summary |-> "Failed to parse cryptocurrency macroeconomic analysis response.",
                 monetary_policy_impact |-> "neutral",
                 confidence |-> MACRO_PARSE_FAILED_CONFIDENCE])
    ELSE IF ~llm_response.object
    THEN Raise("TypeError")
    ELSE Return(DictSet(DictSet(llm_response.value,
                    "summary", Get(llm_response.value, "summary", "")),
                    "monetary_policy_impact",
                    Get(llm_response.value, "monetary_policy_impact", "neutral")))

\* the nearest integer to tenths/10; tenths is even wherever this is used,
\* so no value lies halfway
RoundTenths(tenths) == (tenths + 5) \div 10

\* MacroAnalyst._enhance_crypto_analysis, lines 417-418: the data quality
CryptoDataQuality(economic_data, news_count, rag_count) ==
    LET econ_indicators_count ==
            Cardinality(DOMAIN economic_data \ {"data_quality", "timestamp", "note"})
        quality == econ_indicators_count * INDICATOR_WEIGHT
                   + news_count * NEWS_WEIGHT + rag_count * RAG_WEIGHT
    IN  IF quality > HUNDRED THEN HUNDRED ELSE quality

\* MacroAnalyst._enhance_crypto_analysis, lines 421-422 and 437
EnhancedConfidence(original_confidence, quality) ==
    LET enhanced == original_confidence * CONFIDENCE_WEIGHT + quality * QUALITY_WEIGHT
    IN  RoundTenths(IF enhanced > HUNDRED * 10 THEN HUNDRED * 10 ELSE enhanced)

\* MacroAnalyst._enhance_crypto_analysis
EnhanceCryptoAnalysis(analysis_result, economic_data, news_count, rag_count) ==
    LET quality == CryptoDataQuality(economic_data, news_count, rag_count)
        original_confidence == Get(analysis_result, "confidence", MACRO_DEFAULT_CONFIDENCE)
    IN  DictSet(DictSet(analysis_result,
            "metadata", [crypto_data_quality_score |-> quality]),
            "confidence", EnhancedConfidence(original_confidence, quality))

\* MacroAnalyst._generate_crypto_macro_analysis: every exception of the
\* model call, of the parsing and of the enhancement ends in the fallback
GenerateCryptoMacroAnalysis(asset_symbol, economic_data, news_count, rag_count, llm_response) ==
    IF llm_response.kind = "raise" THEN CreateCryptoFallbackMacroAnalysis(asset_symbol)
    ELSE IF IsRaise(ParseLlmResponse(llm_response))
    THEN CreateCryptoFallbackMacroAnalysis(asset_symbol)
    ELSE EnhanceCryptoAnalysis(ParseLlmResponse(llm_response).value,
                               economic_data, news_count, rag_count)

\* MacroAnalyst._format_crypto_output
FormatCryptoOutput(analysis_result, economic_data, rag_count) ==
    [agent_name |-> "macro",
     summary |-> Get(analysis_result, "summary", ""),
     confidence |-> Get(analysis_result, "confidence", MACRO_DEFAULT_CONFIDENCE),
     key_factors |-> Get(analysis_result, "key_factors", << >>),
     data_sources |->
        [economic_data_quality |-> Get(economic_data, "data_quality", "unknown"),
         crypto_rag_documents_count |-> rag_count,
         crypto_data_quality_score |->
            Get(Get(analysis_result, "metadata", EmptyDict),
                "crypto_data_quality_score", 0)],
     detailed_analysis |-> DictDel(analysis_result, "metadata")]

\* MacroAnalyst._create_crypto_fallback_analysis
CreateCryptoFallbackAnalysis(query) ==
    [agent_name |-> "macro",
     summary |-> <<"Unable to perform cryptocurrency macroeconomic analysis for", query>>,
     confidence |-> MACRO_FAILED_CONFIDENCE,
     key_factors |-> <<"Technical error", "Data unavailability", "System failure">>,
     data_sources |-> [economic_data_quality |-> "unavailable",
                       crypto_rag_documents_count |-> 0,
                       crypto_data_quality_score |-> 0]]

\* the body of the try statement of MacroAnalyst.analyze, lines 103-132
MacroTry(input) ==
    LET asset_symbol == IF Truthy(input.context)
                        THEN Get(input.context, "asset_symbol", "") ELSE ""
        economic_data == CollectEconomicData(input.fred)
        news_count == CollectCryptoNewsData(input.news)
        rag_count == GetCryptoRagDocuments(input.store)
    IN  IF IsRaise(TranslateText(input.query, input.translation))
        THEN TranslateText(input.query, input.translation)
        ELSE Return(FormatCryptoOutput(
                 GenerateCryptoMacroAnalysis(asset_symbol, economic_data,
                                             news_count, rag_count, input.llm),
                 economic_data, rag_count))

\* an analyze whose failures reach the caller
MacroAnalyzeUncaught(input) ==
    IF IsRaise(MacroTry(input)) THEN MacroTry(input) ELSE MacroTry(input).value

\* MacroAnalyst.analyze, lines 88-136
MacroAnalyze(input) ==
    IF IsRaise(MacroTry(input))
    THEN CreateCryptoFallbackAnalysis(input.query)
    ELSE MacroTry(input).value

\* TechnicalAnalyst._collect_technical_data, lines 142-153: Binance, then
\* CoinGecko, then the empty dict
CollectTechnicalData(binance, coingecko) ==
    IF ~IsRaise(binance) THEN [feed |-> "binance"]
    ELSE IF ~IsRaise(coingecko) THEN [feed |-> "coingecko"]
    ELSE EmptyDict

\* TechnicalAnalyst.analyze, lines 108-115: json.loads and its fallback
ParseTechnicalResponse(llm_response) ==
    IF llm_response.kind = "text"
    THEN [summary |-> llm_response.text,
          confidence |-> TECHNICAL_PARSE_FAILED_CONFIDENCE,
          key_factors |-> << >>]
    ELSE llm_response.value

\* BaseAgent.format_output
FormatOutput(agent_name, analysis_dict, confidence, key_factors) ==
    [agent_name |-> agent_name,
     summary |-> Get(analysis_dict, "summary", ""),
     confidence |-> confidence,
     key_factors |-> key_factors,
     detailed |-> analysis_dict]

\* the body of the try statement of TechnicalAnalyst.analyze, lines 76-132
TechnicalTry(input) ==
    LET translated == TranslateText(input.query, input.translation)
        documents == QueryCollection(input.store)
        technical_data == CollectTechnicalData(input.binance, input.coingecko)
        parsed == ParseTechnicalResponse(input.llm)
        summary == TranslateText(Get(parsed, "summary", ""), input.translation)
    IN  IF IsRaise(translated) THEN translated
        ELSE IF IsRaise(documents) THEN documents
        ELSE IF input.llm.kind = "raise" THEN Raise("model call failed")
        ELSE IF input.llm.kind = "json" /\ ~input.llm.object
        THEN Raise("AttributeError: 'list' object has no attribute 'get'")
        ELSE IF input.context = None
        THEN Raise("AttributeError: 'NoneType' object has no attribute 'get'")
        ELSE Return(FormatOutput("technical",
                        DictSet(parsed, "summary", summary.value),
                        Get(parsed, "confidence", TECHNICAL_DEFAULT_CONFIDENCE),
                        Get(parsed, "key_factors", << >>)))

\* TechnicalAnalyst.analyze, lines 60-140
TechnicalAnalyze(input) ==
    IF IsRaise(TechnicalTry(input))
    THEN [agent_name |-> "technical",
          error |-> TechnicalTry(input).exception,
          confidence |-> TECHNICAL_FAILED_CONFIDENCE]
    ELSE TechnicalTry(input).value

\* before the call
AnalyzerIdle ==
    /\ agent_input = None
    /\ agent_result = None

----------------------------------------------------------------------------
(* DataOrchestrator: the registry of data sources and their updates *)

\* update_all_sources calls in one behaviour
MaxRuns == 1
\* update_source calls and tier jobs started outside update_all_sources
MaxDirect == 2
\* documents a successful fetch returns
FETCHED == 2

\* three of the twelve registered sources: the two of the critical tier and
\* one of the high tier; the medium tier is empty here, as the low tier is
\* in the program
SourceKeys == { "coindesk_markets", "market_data_api", "reuters_forex" }

\* a key that is not registered
UnknownKey == "unknown"

\* UpdatePriority, in the order update_all_sources goes through it
Priorities == << "CRITICAL", "HIGH", "MEDIUM", "LOW" >>

\* DataSourceConfig
DataSourceConfig(priority, scraper_type) ==
    [enabled |-> TRUE, priority |-> priority, scraper_type |-> scraper_type,
     total_fetches |-> 0]

\* DataOrchestrator._initialize_sources
InitializeSources ==
    [k \in SourceKeys |->
        CASE k = "coindesk_markets" -> DataSourceConfig("CRITICAL", "deep")
          [] k = "market_data_api" -> DataSourceConfig("CRITICAL", "api")
          [] k = "reuters_forex" -> DataSourceConfig("HIGH", "basic")]

\* the jobs setup_schedule adds
JobIds == { "critical_updates", "high_priority_updates", "medium_priority_updates",
            "low_priority_updates", "daily_full_update" }

\* who started an update_source coroutine: update_all_sources, or anything
\* else (a tier job of the scheduler, a caller of update_source)
Origins == { "run", "other" }

\* positions of an update_source coroutine
NoCall == [at |-> "none"]
Created == [at |-> "created"]
Fetching == [at |-> "fetching"]
Adding(documents) == [at |-> "adding", documents |-> documents]
Returned(result) == [at |-> "returned", result |-> result]

\* what a fetch ends with: an exception, no documents, or documents
FetchOutcomes == { Raise("scraper failed"), Return(0), Return(FETCHED) }

\* RAGService.add_documents, lines 199-216 and 218-281: the statistics it
\* returns when the collection is not found, when every batch is rejected
\* and when every document is stored; it raises when initialize does
AddNotFound(documents) ==
    Return([total_documents |-> documents, successful |-> 0, failed |-> 0,
            errors |-> <<"Collection not found">>])
AddRejected(documents) ==
    Return([total_documents |-> documents, successful |-> 0, failed |-> documents,
            errors |-> <<"Batch 0 error">>])
AddStored(documents) ==
    Return([total_documents |-> documents, successful |-> documents, failed |-> 0,
            errors |-> << >>])
AddRaises == Raise("initialize failed")

AddOutcomes(documents) ==
    { AddNotFound(documents), AddRejected(documents), AddStored(documents), AddRaises }

\* the outcomes in which the vector store did not add the documents
AddFailures(documents) ==
    { AddNotFound(documents), AddRejected(documents), AddRaises }

\* Python's truth value of a dict
DictTruthy(d) == DOMAIN d # {}

\* sources of a tier that are enabled, lines 393-395 and 498-499
EnabledOf(priority) ==
    { k \in SourceKeys : sources[k].enabled /\ sources[k].priority = priority }

\* the first tier from position i on that has sources, 5 if there is none
RECURSIVE NextTier(_, _)
NextTier(groups, i) ==
    IF i > Len(Priorities) THEN i
    ELSE IF groups[Priorities[i]] # {} THEN i
    ELSE NextTier(groups, i + 1)

NoRun == [pc |-> "idle"]

OrchestratorInit ==
    /\ sources = InitializeSources
    /\ stats = [total_updates |-> 0, successful_updates |-> 0, failed_updates |-> 0]
    /\ running = FALSE
    /\ jobs = {}
    /\ run = NoRun
    /\ calls = [o \in Origins |-> [k \in SourceKeys |-> NoCall]]
    /\ nruns = 0
    /\ ndirect = 0

----------------------------------------------------------------------------
(* RAGService: the vector store adapter *)

\* documents given to one add_documents call: up to MaxDocs
MaxDocs == 2
\* calls of the adapter in one behaviour
MaxRagCalls == 2
\* collection names given to one query call: up to MaxNames
MaxNames == 2

\* Names are sequences of tokens, so that f"{name}_data" is Append and
\* name.replace("_data", "") removes every "_data" token.
\* lines 17-19 and 145-146: the names of the three collections
CHROMA_COLLECTION_CRYPTO == << "crypto", "_data" >>
CHROMA_COLLECTION_NEWS == << "news", "_sentiment" >>
CHROMA_COLLECTION_MACRO == << "macro", "_data" >>

\* _get_collection returns None
NoCollection == << >>

\* the keys of self.collections once _initialize_collections has returned
CanonicalCollections ==
    { CHROMA_COLLECTION_MACRO, CHROMA_COLLECTION_CRYPTO, CHROMA_COLLECTION_NEWS }

\* a table that sends "crypto" to the news collection
CollectionMappingCrossed ==
    [ n \in { <<"crypto">>, <<"news">>, <<"macro">> } \cup CanonicalCollections |->
        IF n = <<"crypto">> THEN CHROMA_COLLECTION_NEWS
        ELSE IF n = <<"news">> THEN CHROMA_COLLECTION_CRYPTO
        ELSE IF n = <<"macro">> THEN CHROMA_COLLECTION_MACRO
        ELSE n ]

\* self.collection_mapping, lines 58-67
CollectionMapping ==
    [ n \in { <<"crypto">>, <<"news">>, <<"macro">> } \cup CanonicalCollections |->
        IF n = <<"crypto">> THEN CHROMA_COLLECTION_CRYPTO
        ELSE IF n = <<"news">> THEN CHROMA_COLLECTION_NEWS
        ELSE IF n = <<"macro">> THEN CHROMA_COLLECTION_MACRO
        ELSE n ]

\* the names the adapter is asked for: the logical and the canonical ones,
\* "crypto_macro_data" (macro_analyst.py, line 232), a canonical name with
\* one more suffix, and a name nothing resembles
CollectionNames ==
    DOMAIN CollectionMapping \cup
    { << "crypto", "_macro", "_data" >>, << "macro", "_data", "_collection" >>,
      << "unknown" >> }

\* name.replace(suffix, "")
Replace(name, suffix) == SelectSeq(name, LAMBDA tok : tok # suffix)

\* lines 162-169
Variations(name) ==
    << Append(name, "_data"), Append(name, "_sentiment"), Append(name, "_collection"),
       Replace(name, "_data"), Replace(name, "_sentiment"), Replace(name, "_collection") >>

\* lines 171-177: the first variation that is a key, or None
RECURSIVE FirstIn(_, _)
FirstIn(names, colls) ==
    IF names = << >> THEN NoCollection
    ELSE IF Head(names) \in colls THEN Head(names)
    ELSE FirstIn(Tail(names), colls)

\* RAGService._get_collection: the key of the collection it returns
GetCollection(colls, collection_name) ==
    LET mapped_name == IF collection_name \in DOMAIN CollectionMapping
                       THEN CollectionMapping[collection_name] ELSE NoCollection
    IN  IF mapped_name # NoCollection /\ mapped_name \in colls THEN mapped_name
        ELSE IF collection_name \in colls THEN collection_name
        ELSE FirstIn(Variations(collection_name), colls)

\* the documents a caller submits: dicts with a text and metadata ("a" and
\* "b" stand for two different contents), and a dict whose metadata
\* json.dumps cannot serialise
Documents == { [content |-> "a"], [content |-> "b"], [content |-> "unserialisable"] }

RECURSIVE SeqsUpTo(_, _)
SeqsUpTo(S, n) ==
    IF n = 0 THEN { << >> }
    ELSE LET shorter == SeqsUpTo(S, n - 1)
         IN  shorter \cup { Append(s, x) : s \in { q \in shorter : Len(q) = n - 1 }, x \in S }

\* RAGDocument.generate_id, lines 34-37: the md5 of text and metadata
GenerateId(doc) == << "md5", doc.content >>

\* lines 220-238: the documents that become RAGDocuments with an id; the
\* others are counted as failed
Convertible(doc) == doc.content # "unserialisable"
RagDocs(documents) == SelectSeq(documents, Convertible)

\* the batch_size values the calls are made with (the default is 100)
BatchSizes == { 1, 2 }

\* range(0, len(rag_docs), batch_size): the number of batches
BatchCount(n, batch_size) == (n + batch_size - 1) \div batch_size

\* rag_docs[i:i + batch_size] of the k-th batch, k from 1
Batch(rag_docs, batch_size, k) ==
    SubSeq(rag_docs, (k - 1) * batch_size + 1,
           IF k * batch_size < Len(rag_docs) THEN k * batch_size ELSE Len(rag_docs))

Ids(batch) == [ i \in 1..Len(batch) |-> GenerateId(batch[i]) ]

HasDuplicates(ids) == \E i, j \in 1..Len(ids) : i # j /\ ids[i] = ids[j]

\* chromadb Collection.add as line 260 uses it: it rejects a call whose ids
\* repeat, keeps the entry of an id it already holds and stores the others;
\* `fails` stands for any other failure of the store or of the embedding
CollectionAdd(held, ids, fails) ==
    IF fails \/ HasDuplicates(ids) THEN Raise("add failed")
    ELSE Return(held \cup { ids[i] : i \in 1..Len(ids) })

\* lines 199-206
NewStats(documents) ==
    [ total_documents |-> Len(documents), successful |-> 0, failed |-> 0,
      errors |-> << >>, batches |-> 0 ]

\* lines 241-273: the batches from the k-th on, each in its own try
RECURSIVE AddBatches(_, _, _, _, _, _)
AddBatches(rag_docs, batch_size, k, failing, held, st) ==
    IF k > BatchCount(Len(rag_docs), batch_size) THEN [stats |-> st, held |-> held]
    ELSE LET batch == Batch(rag_docs, batch_size, k)
             added == CollectionAdd(held, Ids(batch), k \in failing)
         IN  IF IsRaise(added)
             THEN AddBatches(rag_docs, batch_size, k + 1, failing, held,
                             [st EXCEPT !.failed = @ + Len(batch),
                                        !.errors = Append(@, "batch error"),
                                        !.batches = @ + 1])
             ELSE AddBatches(rag_docs, batch_size, k + 1, failing, added.value,
                             [st EXCEPT !.successful = @ + Len(batch),
                                        !.batches = @ + 1])

\* add_documents from line 199 on: the statistics it returns and what the
\* collections hold afterwards
AddDocumentsTo(colls, holds, documents, collection_name, batch_size, failing) ==
    LET key == GetCollection(colls, collection_name)
        rag_docs == RagDocs(documents)
        converted == [NewStats(documents) EXCEPT
                        !.failed = Len(documents) - Len(rag_docs),
                        !.errors = [i \in 1..(Len(documents) - Len(rag_docs)) |->
                                       "conversion error"]]
    IN  IF documents = << >> THEN [stats |-> NewStats(documents), holds |-> holds]
        ELSE IF key = NoCollection
        THEN [ stats |-> [NewStats(documents) EXCEPT !.errors = << "not found" >>],
               holds |-> holds ]
        ELSE LET done == AddBatches(rag_docs, batch_size, 1, failing, holds[key], converted)
             IN  [stats |-> done.stats, holds |-> [holds EXCEPT ![key] = done.held]]

\* n_results of the queries: fewer than the crypto collection can hold
ResultLimits == { 1 }

\* collection.query, line 341: at most n_results of the entries held
SearchCount(held, n_results) ==
    IF Cardinality(held) < n_results THEN Cardinality(held) ELSE n_results

\* lines 328-372: the entry of the i-th name
QueryEntry(colls, holds, names, n_results, failing, i) ==
    LET key == GetCollection(colls, names[i])
    IN  IF key = NoCollection THEN [count |-> 0, error |-> "not found"]
        ELSE IF i \in failing THEN [count |-> 0, error |-> "search failed"]
        ELSE [count |-> SearchCount(holds[key], n_results)]

\* lines 312-374 once the query text is embedded: the combined count and
\* the per-name entries; a name given twice keeps the entry written last
QueryResults(colls, holds, names, n_results, failing) ==
    [ total_results |->
          Sum([ i \in 1..Len(names) |->
                  QueryEntry(colls, holds, names, n_results, failing, i).count ]),
      collections |->
          [ n \in { names[i] : i \in 1..Len(names) } |->
              LET last == CHOOSE i \in 1..Len(names) :
                              names[i] = n /\ \A j \in (i + 1)..Len(names) : names[j] # n
              IN  QueryEntry(colls, holds, names, n_results, failing, last) ] ]

\* lines 312-325: the results when embedding the query text raises
QueryResultsUnembedded == [ total_results |-> 0, collections |-> << >> ]

\* RAGService.query_collection on an initialized adapter, lines 397-430: the
\* number of documents in the list it returns; it returns the empty list
\* when the name resolves to no collection, when the query has no entry
\* with results for the name, and when anything in between raises
QueryCollectionFor(colls, holds, collection_name, n_results, embedded, fails) ==
    IF GetCollection(colls, collection_name) = NoCollection THEN Return(0)
    ELSE LET result == IF embedded
                       THEN QueryResults(colls, holds, << collection_name >>, n_results,
                                         IF fails THEN {1} ELSE {})
                       ELSE QueryResultsUnembedded
         IN  IF collection_name \in DOMAIN result.collections
             THEN Return(result.collections[collection_name].count)
             ELSE Return(0)

\* n_results of the macro analyst's queries, macro_analyst.py lines 236, 243
MACRO_RAG_RESULTS == 10

\* the two names the macro analyst asks for, macro_analyst.py lines 232, 242
CryptoMacroName == << "crypto", "_macro", "_data" >>
GeneralMacroName == << "macro", "_data" >>

\* MacroAnalyst._get_crypto_rag_documents once initialize() has returned,
\* lines 231-247: the general collection is asked only when the query of
\* the crypto-specific one raises
CryptoRagDocuments(colls, holds, embedded, fails) ==
    LET documents == QueryCollectionFor(colls, holds, CryptoMacroName,
                                        MACRO_RAG_RESULTS, embedded, fails)
    IN  IF IsRaise(documents)
        THEN QueryCollectionFor(colls, holds, GeneralMacroName,
                                MACRO_RAG_RESULTS, embedded, fails).value
        ELSE documents.value

\* RAGService.__init__, lines 50-55, in front of an empty store
RagServiceInit ==
    /\ initialized = FALSE
    /\ collections = {}
    /\ chroma = [c \in CanonicalCollections |-> {}]
    /\ rag = None
    /\ nrag = 0

----------------------------------------------------------------------------
(* The secondary cache: AnalysisService.cache_analysis and                  *)
(* get_cached_analysis on top of the cache manager of infrastructure/cache  *)

\* ttl=1800 of cache_analysis, in seconds
CACHE_TTL_SECONDS == 1800
SECONDS_PER_MINUTE == 60

\* cache.py, lines 44-83: the manager get_cache() returns
Backends == { "memory", "redis" }

\* the timeframe argument of get_cached_analysis: None or a TimeframeVO
Timeframes == { "None", "medium" }

\* _generate_cache_key, lines 160-183, without a context: the string that
\* is hashed
GenerateCacheKey(query, asset_symbol, timeframe) ==
    << query, ":" >> \o asset_symbol \o
    (IF timeframe # "None" THEN << ":", timeframe >> ELSE << >>)

\* what the Redis client does with the dict setex is given: it stores its
\* text or rejects the value, depending on the client's version
RedisSetOutcomes == { "stored", "raise" }

\* InMemoryCacheManager.set, lines 23-27 (ttl is not used), and
\* RedisCacheManager.set, lines 64-68
CacheSet(manager, store, key, value, ttl, t, outcome) ==
    IF manager = "memory" THEN DictSet(store, key, [kind |-> "dict", value |-> value])
    ELSE IF outcome = "raise" THEN store
    ELSE DictSet(store, key, [kind |-> "str", value |-> value, written |-> t, ttl |-> ttl])

\* an entry Redis has expired by instant t
Expired(entry, t) ==
    (t - entry.written) * TickMinutes * SECONDS_PER_MINUTE >= entry.ttl

\* InMemoryCacheManager.get, lines 17-21, and RedisCacheManager.get,
\* lines 57-62
CacheGet(manager, store, key, t) ==
    IF key \notin DOMAIN store THEN None
    ELSE IF manager = "redis" /\ Expired(store[key], t) THEN None
    ELSE store[key]

\* get_cached_analysis, lines 198-211, given what the manager returned: a
\* dict goes to Analysis.from_dict, which the entity does not have, and the
\* AttributeError is caught; any other value is returned as it is
ReturnedFromCache(cached) ==
    IF cached = None THEN None
    ELSE IF cached.kind = "str" THEN cached
    ELSE None

\* get_cache() with the in-memory manager, nothing cached yet
CacheIdle ==
    /\ backend = "memory"
    /\ kv = EmptyDict
    /\ written = EmptyDict
    /\ kvcall = None

----------------------------------------------------------------------------
(* Steps of single calls: the price feeds, the page fetch, initialize *)

\* operations started side by side on one RAGService
Operations == { "op1", "op2" }

\* calls of _collect_technical_data in one behaviour
MaxCollects == 2

\* the symbols the technical analyzer is asked about
FeedSymbols == { "BTC", "ETH" }

\* the prices a feed reports
FeedPrices == { 1, 2, 3 }

\* what _get_binance_data ends with: an exception of the client or of the
\* conversion of its answer, or the dict of lines 177-185
BinanceOutcomes ==
    { Raise("unavailable"), Raise("KeyError: 'lastPrice'") }
    \cup { Return([source |-> "binance", current_price |-> p]) : p \in FeedPrices }

\* what _get_coingecko_data ends with: an exception of the client, the
\* ValueError of line 211, or the dict of lines 240-250
CoinGeckoOutcomes ==
    { Raise("unavailable"), Raise("ValueError: No price data available from CoinGecko") }
    \cup { Return([source |-> "coingecko", current_price |-> p]) : p \in FeedPrices }

\* _collect_technical_data not called; `earlier` holds what the calls so
\* far returned to their callers
FeedIdle ==
    collect = [at |-> "idle", symbol |-> "", queried |-> << >>,
               result |-> None, earlier |-> << >>]

\* retry_on_failure(max_retries=3) on _fetch_page, and the default delay
MAX_RETRIES == 3
RETRY_DELAY == 2
\* the status of a page that is served
HTTP_OK == 200

\* the pages fetched
Urls == { "u1", "u2" }

\* what session.get ends with: a response with its status and text, the
\* session's timeout, or another exception
Responses ==
    { [kind |-> "response", status |-> HTTP_OK, text |-> "page a"],
      [kind |-> "response", status |-> HTTP_OK, text |-> "page b"],
      [kind |-> "response", status |-> 404, text |-> ""],
      [kind |-> "response", status |-> 500, text |-> ""],
      [kind |-> "timeout"],
      [kind |-> "error", exception |-> "ClientConnectorError"],
      [kind |-> "error", exception |-> "ServerDisconnectedError"] }

\* the str a coroutine returns where it may also return None
Str(text) == [py |-> "str", value |-> text]

\* a _fetch_page that re-raises the timeout
FetchPageRaisingTimeout(answer) ==
    IF answer.kind = "response"
    THEN IF answer.status = HTTP_OK THEN Return(Str(answer.text)) ELSE Return(None)
    ELSE IF answer.kind = "timeout" THEN Raise("TimeoutError")
    ELSE Raise(answer.exception)

\* NewsAggregator._fetch_page, lines 159-173
FetchPage(answer) ==
    IF answer.kind = "response"
    THEN IF answer.status = HTTP_OK THEN Return(Str(answer.text)) ELSE Return(None)
    ELSE IF answer.kind = "timeout" THEN Return(None)
    ELSE Raise(answer.exception)

\* _fetch_page not called
RetryIdle ==
    fetch = [at |-> "idle", url |-> "", responses |-> << >>, slept |-> << >>,
             result |-> None]

\* RAGService.__init__, lines 43-56: no client, no model, no collections,
\* and no operation started
InitIdle ==
    /\ ops = [o \in Operations |-> [at |-> "none"]]
    /\ made = [client |-> 0, embedding_model |-> 0, collections |-> 0]

StepsIdle == FeedIdle /\ RetryIdle /\ InitIdle

----------------------------------------------------------------------------
(* Actions *)

ServiceInit ==
    /\ now = 0
    /\ cache = EmptyDict
    /\ pc = "Idle"
    /\ state = "None"
    /\ request = NoRequest
    /\ cached_analysis = None
    /\ tasks = [b \in Branches |-> NotStarted]
    /\ response = None
    /\ analysis = None
    /\ stored = "no"
    /\ invoked = {}
    /\ llm_calls = 0
    /\ ncalls = 0
    /\ seen_age = -1

\* the state after construction
Init ==
    /\ ServiceInit /\ RiskIdle /\ AnalyzerIdle /\ OrchestratorInit
    /\ RagServiceInit /\ CacheIdle /\ StepsIdle

\* the instants a read of the clock can return
Instants == now .. MaxTime

\* line 60: context.get("conversation_id") if context else None
ConversationOf(context) ==
    IF context # None /\ "conversation_id" \in DOMAIN context
    THEN context.conversation_id ELSE NoConversation

\* the context of a request that carries its conversation and nothing else
ContextOf(conversation_id) ==
    IF conversation_id = NoConversation THEN None
    ELSE [conversation_id |-> conversation_id]

\* lines 87-96: the context handed to the synthesis agent; the asset_symbol
\* of the request's own context replaces the requested one
AnalysisContext(asset_symbol, context) ==
    [ asset_symbol |-> IF context # None /\ "asset_symbol" \in DOMAIN context
                       THEN context.asset_symbol ELSE asset_symbol ]

\* AnalysisService.analyze, lines 59-114, up to its first suspension: the
\* lookup at instant t, then either the answer rebuilt from the cache or the
\* entry into SynthesisAgent.analyze (lines 75-83, the three coroutines
\* created)
AnalyzeRequest(query, asset_symbol, conversation_id, context, t) ==
    /\ UNCHANGED outsideService
    /\ pc \in {"Idle", "Returned", "Raised"}
    /\ ncalls < MaxCalls
    /\ ncalls' = ncalls + 1
    /\ now' = t
    /\ request' = [query |-> query, asset_symbol |-> asset_symbol,
                   conversation_id |-> conversation_id, context |-> context]
    /\ seen_age' = IF CacheKey(conversation_id, asset_symbol) \in DOMAIN cache
                   THEN t - FromIsoFormat(cache[CacheKey(conversation_id, asset_symbol)].timestamp)
                   ELSE -1
    /\ invoked' = {}
    /\ llm_calls' = 0
    /\ stored' = "no"
    /\ tasks' = [b \in Branches |-> NotStarted]
    /\ response' = None
    /\ LET found == IF conversation_id # NoConversation
                    THEN GetCachedAnalysis(cache, conversation_id, asset_symbol, t)
                    ELSE None
       IN  /\ cached_analysis' = found
           /\ cache' = IF conversation_id # NoConversation
                       THEN CacheAfterLookup(cache, conversation_id, asset_symbol, t)
                       ELSE cache
           /\ IF found # None
              THEN /\ analysis' = CreateAnalysisFromCache(query, asset_symbol, found)
                   /\ pc' = "Store"
                   /\ state' = "None"
              ELSE /\ analysis' = None
                   /\ pc' = "Synth"
                   /\ state' = "Pending"

\* analyze called with a context dict, or with None
Analyze(query, asset_symbol, context, t) ==
    AnalyzeRequest(query, asset_symbol, ConversationOf(context), context, t)

\* analyze called with a context that holds the conversation_id only
AnalyzeStart(query, asset_symbol, conversation_id, t) ==
    Analyze(query, asset_symbol, ContextOf(conversation_id), t)

\* SynthesisAgent.analyze, line 85: gather starts the three coroutines
Gather ==
    /\ UNCHANGED outsideService
    /\ pc = "Synth" /\ state = "Pending"
    /\ state' = "FanningOut"
    /\ tasks' = [b \in Branches |-> Running]
    /\ invoked' = Branches
    /\ UNCHANGED << now, cache, pc, request, cached_analysis, response, analysis,
                    stored, llm_calls, ncalls, seen_age >>

\* one analyzer coroutine ends, with a dict or with an exception
BranchCompletes(b, outcome) ==
    /\ UNCHANGED outsideService
    /\ pc = "Synth" /\ state = "FanningOut"
    /\ tasks[b] = Running
    /\ tasks' = [tasks EXCEPT ![b] = outcome]
    /\ UNCHANGED << now, cache, pc, state, request, cached_analysis, response,
                    analysis, stored, invoked, llm_calls, ncalls, seen_age >>

\* a gather without return_exceptions: it also returns at the first exception
AllDoneOrRaised(t) ==
    \/ \A b \in Branches : t[b] # Running
    \/ \E b \in Branches : "exception" \in DOMAIN t[b]

\* asyncio.gather(..., return_exceptions=True), lines 85-88: it returns when
\* every coroutine has ended, by returning or by raising
AllDone(t) == \A b \in Branches : t[b] # Running

\* gather returns once all three have ended; lines 91-102 and 185-203: the
\* results are normalised and the synthesis model call is issued
StartSynthesis ==
    /\ UNCHANGED outsideService
    /\ pc = "Synth" /\ state = "FanningOut"
    /\ AllDone(tasks)
    /\ tasks' = [b \in Branches |-> HandleError(tasks[b])]
    /\ state' = "Synthesizing"
    /\ llm_calls' = llm_calls + 1
    /\ UNCHANGED << now, cache, pc, request, cached_analysis, response, analysis,
                    stored, invoked, ncalls, seen_age >>

\* a synthesis whose failure leaves a partial entry in the cache
SynthesisReturnsCachingFailure(llm_response, t) ==
    /\ UNCHANGED outsideService
    /\ pc = "Synth" /\ state = "Synthesizing"
    /\ response' = llm_response
    /\ LET result == SynthesisResult(request.query,
                                     AnalysisContext(request.asset_symbol, request.context),
                                     tasks, llm_response)
       IN  IF result = None
           THEN /\ state' = "Failed"
                /\ pc' = "Raised"
                /\ UNCHANGED << analysis, now >>
                /\ cache' = IF request.conversation_id # NoConversation
                            THEN DictSet(cache, CacheKey(request.conversation_id,
                                                         request.asset_symbol),
                                         [timestamp |-> IsoFormat(t)])
                            ELSE cache
           ELSE /\ state' = "Complete"
                /\ pc' = "Store"
                /\ analysis' = result
                /\ now' = IF request.conversation_id # NoConversation THEN t ELSE now
                /\ cache' = CacheAfterAnalysis(cache, request.conversation_id,
                                               request.asset_symbol, result, t)
    /\ UNCHANGED << request, cached_analysis, tasks, stored, invoked, llm_calls,
                    ncalls, seen_age >>

\* the synthesis model call ends; lines 205-215 and 104-172 of the agent,
\* then lines 99-105 of the service, whose cache write reads the clock
\* (instant t), up to the database write
SynthesisReturns(llm_response, t) ==
    /\ UNCHANGED outsideService
    /\ pc = "Synth" /\ state = "Synthesizing"
    /\ response' = llm_response
    /\ LET result == SynthesisResult(request.query,
                                     AnalysisContext(request.asset_symbol, request.context),
                                     tasks, llm_response)
       IN  IF result = None
           THEN /\ state' = "Failed"
                /\ pc' = "Raised"
                /\ UNCHANGED << analysis, cache, now >>
           ELSE /\ state' = "Complete"
                /\ pc' = "Store"
                /\ analysis' = result
                /\ now' = IF request.conversation_id # NoConversation THEN t ELSE now
                /\ cache' = CacheAfterAnalysis(cache, request.conversation_id,
                                               request.asset_symbol, result, t)
    /\ UNCHANGED << request, cached_analysis, tasks, stored, invoked, llm_calls,
                    ncalls, seen_age >>

\* a database write whose failure reaches the caller of analyze
StoreAnalysisPropagates(committed) ==
    /\ UNCHANGED outsideService
    /\ pc = "Store"
    /\ stored' = IF committed THEN "committed" ELSE "failed"
    /\ pc' = IF committed THEN "Returned" ELSE "Raised"
    /\ UNCHANGED << now, cache, state, request, cached_analysis, tasks, response,
                    analysis, invoked, llm_calls, ncalls, seen_age >>

\* _store_analysis, lines 142-158: the commit succeeds or its failure is
\* logged and swallowed; analyze returns the analysis either way
StoreAnalysis(committed) ==
    /\ UNCHANGED outsideService
    /\ pc = "Store"
    /\ stored' = IF committed THEN "committed" ELSE "failed"
    /\ pc' = "Returned"
    /\ UNCHANGED << now, cache, state, request, cached_analysis, tasks, response,
                    analysis, invoked, llm_calls, ncalls, seen_age >>

\* the next-state relation over given sets of requests and of outcomes of
\* the analyzers and of the synthesis model call
NextOver(queries, assets, conversations, analyzer_outcomes, llm_outcomes) ==
    \/ \E q \in queries, a \in assets, c \in conversations, t \in Instants :
          AnalyzeStart(q, a, c, t)
    \/ Gather
    \/ \E b \in Branches, o \in analyzer_outcomes : BranchCompletes(b, o)
    \/ StartSynthesis
    \/ \E r \in llm_outcomes, t \in Instants : SynthesisReturns(r, t)
    \/ \E committed \in BOOLEAN : StoreAnalysis(committed)

\* requests of one conversation, and requests without one, for one asset
Next ==
    NextOver(Queries, Assets, Conversations,
             {AnalyzerDict(18), AnalyzerDict(30), AnalyzerDict(-90)},
             {LlmFailure, LlmMalformed, LlmFull})

Spec == Init /\ [][Next]_vars

\* requests without a conversation, with every outcome of the analyzers and
\* of the synthesis model call
NextSynthesis ==
    NextOver(Queries, Assets, {NoConversation}, AnalyzerOutcomes, LlmOutcomes)

SpecSynthesis == Init /\ [][NextSynthesis]_vars

\* a second asset, named by the context of a request
OtherAsset == << "E", "T", "H" >>

\* the contexts of the requests: none, the conversation, an asset_symbol of
\* its own, or both
RequestContexts ==
    { None, [conversation_id |-> <<"c", "1">>], [asset_symbol |-> OtherAsset],
      [conversation_id |-> <<"c", "1">>, asset_symbol |-> OtherAsset] }

\* requests with every context of RequestContexts, the analyzers and the
\* synthesis model call answering well or the model call failing
NextContext ==
    \/ \E q \in Queries, a \in Assets, c \in RequestContexts, t \in Instants :
          Analyze(q, a, c, t)
    \/ Gather
    \/ \E b \in Branches : BranchCompletes(b, AnalyzerDict(18))
    \/ StartSynthesis
    \/ \E r \in {LlmFailure, LlmFull}, t \in Instants : SynthesisReturns(r, t)
    \/ \E committed \in BOOLEAN : StoreAnalysis(committed)

SpecContext == Init /\ [][NextContext]_vars

----------------------------------------------------------------------------
(* _get_risk_level called on every score of RiskScores *)

RiskInit ==
    /\ ServiceInit /\ AnalyzerIdle /\ OrchestratorInit /\ RagServiceInit /\ CacheIdle /\ StepsIdle
    /\ score \in RiskScores
    /\ level = "None"

\* the call returns
CallGetRiskLevel ==
    /\ level = "None"
    /\ level' = GetRiskLevel(score)
    /\ UNCHANGED << score, serviceVars, analyzerVars, orchestratorVars, ragVars, kvVars, stepVars >>

SpecRiskLevel == RiskInit /\ [][CallGetRiskLevel]_vars

----------------------------------------------------------------------------
(* The analyzers called on every input of MacroInputs and TechnicalInputs *)

AnalyzerInit ==
    /\ ServiceInit /\ RiskIdle /\ OrchestratorInit /\ RagServiceInit /\ CacheIdle /\ StepsIdle
    /\ agent_input \in MacroInputs \cup TechnicalInputs
    /\ agent_result = None

\* MacroAnalyst.analyze ends
MacroAnalystAnalyze ==
    /\ agent_result = None
    /\ agent_input.agent = "macro"
    /\ agent_result' = MacroAnalyze(agent_input)
    /\ UNCHANGED << agent_input, serviceVars, riskVars, orchestratorVars, ragVars, kvVars, stepVars >>

\* TechnicalAnalyst.analyze ends
TechnicalAnalystAnalyze ==
    /\ agent_result = None
    /\ agent_input.agent = "technical"
    /\ agent_result' = TechnicalAnalyze(agent_input)
    /\ UNCHANGED << agent_input, serviceVars, riskVars, orchestratorVars, ragVars, kvVars, stepVars >>

NextAnalyzers == MacroAnalystAnalyze \/ TechnicalAnalystAnalyze

SpecAnalyzers == AnalyzerInit /\ [][NextAnalyzers]_vars

----------------------------------------------------------------------------
(* SynthesisAgent.analyze when a coroutine need not end *)

\* Every step the event loop can take is eventually taken, and the macro
\* and the technical analyzer end once started; nothing makes the sentiment
\* analyzer end: its coroutine may wait for its network peer for ever
SpecSynthesisFair ==
    /\ SpecSynthesis
    /\ WF_vars(Gather)
    /\ WF_vars(StartSynthesis)
    /\ WF_vars(\E r \in LlmOutcomes, t \in Instants : SynthesisReturns(r, t))
    /\ WF_vars(\E committed \in BOOLEAN : StoreAnalysis(committed))
    /\ WF_vars(\E o \in AnalyzerOutcomes : BranchCompletes("macro", o))
    /\ WF_vars(\E o \in AnalyzerOutcomes : BranchCompletes("technical", o))

----------------------------------------------------------------------------
(* Actions of DataOrchestrator *)

outsideOrchestrator == << serviceVars, riskVars, analyzerVars, ragVars, kvVars, stepVars >>

\* stats with one more failed update; counted marks the updates that also
\* reach line 262
StatsFailed(s, counted) ==
    [s EXCEPT !.failed_updates = @ + 1,
              !.total_updates = IF counted THEN @ + 1 ELSE @]

\* stats after lines 239 and 262
StatsSucceeded(s) ==
    [s EXCEPT !.successful_updates = @ + 1, !.total_updates = @ + 1]

\* an update_source that does not look at the enabled flag
BeginCallUnchecked(source) == Fetching

\* update_source, lines 195-221, up to the suspension in the fetch
BeginCall(source) ==
    IF ~source.enabled
    THEN Returned([success |-> FALSE, error |-> "Source disabled"])
    ELSE Fetching

\* the result dict of an update that went as far as the fetch
Result(success, documents_added, errors) ==
    [success |-> success, documents_added |-> documents_added, errors |-> errors]

\* a caller awaits update_source(key) for a registered key: lines 189-221
UpdateSource(key) ==
    /\ ndirect < MaxDirect
    /\ calls["other"][key].at \in {"none", "returned"}
    /\ ndirect' = ndirect + 1
    /\ calls' = [calls EXCEPT !["other"][key] = BeginCall(sources[key])]
    /\ UNCHANGED << sources, stats, running, jobs, run, nruns, outsideOrchestrator >>

\* a tier job of the scheduler fires: _update_by_priority, lines 496-504,
\* up to its gather
UpdateByPriority(priority) ==
    /\ running
    /\ ndirect < MaxDirect
    /\ \A k \in EnabledOf(priority) : calls["other"][k].at \in {"none", "returned"}
    /\ ndirect' = ndirect + 1
    /\ calls' = [calls EXCEPT !["other"] =
                    [k \in SourceKeys |->
                        IF k \in EnabledOf(priority) THEN Created ELSE @[k]]]
    /\ UNCHANGED << sources, stats, running, jobs, run, nruns, outsideOrchestrator >>

\* a coroutine that gather created starts to run: lines 189-221
UpdateSourceBegins(origin, key) ==
    /\ calls[origin][key] = Created
    /\ calls' = [calls EXCEPT ![origin][key] = BeginCall(sources[key])]
    /\ UNCHANGED << sources, stats, running, jobs, run, nruns, ndirect,
                    outsideOrchestrator >>

\* the fetch ends: lines 216-224, and 255-271 when there is nothing to add
FetchReturns(origin, key, outcome) ==
    /\ calls[origin][key] = Fetching
    /\ IsRaise(outcome) => sources[key].scraper_type # "api"
    /\ IF IsRaise(outcome)
       THEN /\ stats' = StatsFailed(stats, FALSE)
            /\ calls' = [calls EXCEPT ![origin][key] =
                            Returned(Result(FALSE, 0, <<outcome.exception>>))]
       ELSE IF outcome.value = 0
       THEN /\ stats' = StatsFailed(stats, TRUE)
            /\ calls' = [calls EXCEPT ![origin][key] =
                            Returned(Result(FALSE, 0, <<"No documents fetched">>))]
       ELSE /\ stats' = stats
            /\ calls' = [calls EXCEPT ![origin][key] = Adding(outcome.value)]
    /\ UNCHANGED << sources, running, jobs, run, nruns, ndirect, outsideOrchestrator >>

\* add_documents ends: lines 225-254 and 259-271
AddReturns(origin, key, outcome) ==
    /\ calls[origin][key].at = "adding"
    /\ outcome \in AddOutcomes(calls[origin][key].documents)
    /\ LET documents == calls[origin][key].documents
       IN  IF IsRaise(outcome)
           THEN /\ stats' = StatsFailed(stats, FALSE)
                /\ calls' = [calls EXCEPT ![origin][key] =
                                Returned(Result(FALSE, 0, <<outcome.exception>>))]
                /\ sources' = sources
           ELSE IF DictTruthy(outcome.value)
           THEN /\ stats' = StatsSucceeded(stats)
                /\ calls' = [calls EXCEPT ![origin][key] =
                                Returned(Result(TRUE, documents, << >>))]
                /\ sources' = [sources EXCEPT ![key].total_fetches = @ + 1]
           ELSE /\ stats' = StatsFailed(stats, TRUE)
                /\ calls' = [calls EXCEPT ![origin][key] =
                                Returned(Result(FALSE, 0, <<"Failed to add documents to RAG">>))]
                /\ sources' = sources
    /\ UNCHANGED << running, jobs, run, nruns, ndirect, outsideOrchestrator >>

\* the coroutines gather creates for the tier at position i of a run with
\* these groups; none when the tiers are exhausted
Dispatched(groups, i) ==
    [k \in SourceKeys |->
        IF i <= Len(Priorities) /\ k \in groups[Priorities[i]] THEN Created
        ELSE NoCall]

\* the summary update_all_sources returns, lines 417-425
Summary(cs) ==
    LET results == { k \in SourceKeys : cs[k].at = "returned" }
    IN  [sources_updated |-> Cardinality({ k \in results : cs[k].result.success }),
         total_sources |-> Cardinality(results)]

\* update_all_sources, lines 378-407: the enabled sources are grouped by
\* tier and the coroutines of the first tier that has any are created;
\* lines 415-432 when no source is enabled
UpdateAllSources ==
    /\ run.pc \in {"idle", "done"}
    /\ nruns < MaxRuns
    /\ nruns' = nruns + 1
    /\ LET groups == [p \in { Priorities[i] : i \in 1..Len(Priorities) } |-> EnabledOf(p)]
           first == NextTier(groups, 1)
       IN  /\ calls' = [calls EXCEPT !["run"] = Dispatched(groups, first)]
           /\ run' = IF first > Len(Priorities)
                     THEN [pc |-> "done", groups |-> groups,
                           summary |-> Summary(Dispatched(groups, first))]
                     ELSE [pc |-> "tier", tier |-> first, groups |-> groups]
    /\ UNCHANGED << sources, stats, running, jobs, ndirect, outsideOrchestrator >>

\* a gather that returns as soon as one of its coroutines has
TierDoneAtFirst(cs, keys) == \E k \in keys : cs[k].at = "returned"

\* asyncio.gather, line 407: every coroutine of the tier has returned
TierDone(cs, keys) == \A k \in keys : cs[k].at = "returned"

\* the gather of a tier returns, lines 407-413; then the coroutines of the
\* next tier that has sources are created, or the run ends, lines 415-432
TierReturns ==
    /\ run.pc = "tier"
    /\ TierDone(calls["run"], run.groups[Priorities[run.tier]])
    /\ LET next == NextTier(run.groups, run.tier + 1)
       IN  IF next > Len(Priorities)
           THEN /\ run' = [pc |-> "done", groups |-> run.groups,
                           summary |-> Summary(calls["run"])]
                /\ calls' = calls
           ELSE /\ run' = [run EXCEPT !.tier = next]
                /\ calls' = [calls EXCEPT !["run"] =
                                [k \in SourceKeys |->
                                    IF k \in run.groups[Priorities[next]]
                                    THEN Created ELSE @[k]]]
    /\ UNCHANGED << sources, stats, running, jobs, nruns, ndirect, outsideOrchestrator >>

\* an enable_source that registers a key it does not know
EnableSourceRegisters(source_key) ==
    /\ sources' = DictSet(sources, source_key, DataSourceConfig("LOW", "basic"))
    /\ UNCHANGED << stats, running, jobs, run, calls, nruns, ndirect,
                    outsideOrchestrator >>

\* enable_source, lines 544-548
EnableSource(source_key) ==
    /\ sources' = IF source_key \in DOMAIN sources
                  THEN [sources EXCEPT ![source_key].enabled = TRUE]
                  ELSE sources
    /\ UNCHANGED << stats, running, jobs, run, calls, nruns, ndirect,
                    outsideOrchestrator >>

\* disable_source, lines 550-554
DisableSource(source_key) ==
    /\ sources' = IF source_key \in DOMAIN sources
                  THEN [sources EXCEPT ![source_key].enabled = FALSE]
                  ELSE sources
    /\ UNCHANGED << stats, running, jobs, run, calls, nruns, ndirect,
                    outsideOrchestrator >>

\* start, lines 506-516: setup_schedule adds the five jobs
Start ==
    /\ running' = TRUE
    /\ jobs' = IF running THEN jobs ELSE jobs \cup JobIds
    /\ UNCHANGED << sources, stats, run, calls, nruns, ndirect, outsideOrchestrator >>

\* stop, lines 518-526
Stop ==
    /\ running' = FALSE
    /\ UNCHANGED << sources, stats, jobs, run, calls, nruns, ndirect,
                    outsideOrchestrator >>

\* the steps of the update_source coroutines of the given origins
CallSteps(origins) ==
    \/ \E o \in origins, k \in SourceKeys : UpdateSourceBegins(o, k)
    \/ \E o \in origins, k \in SourceKeys, r \in FetchOutcomes : FetchReturns(o, k, r)
    \/ \E o \in origins, k \in SourceKeys, r \in AddOutcomes(FETCHED) : AddReturns(o, k, r)

\* enable_source and disable_source, for registered keys and for others
Switches ==
    \/ \E k \in SourceKeys \cup {UnknownKey} : EnableSource(k)
    \/ \E k \in SourceKeys \cup {UnknownKey} : DisableSource(k)

\* update_all_sources runs while sources are enabled and disabled
NextUpdateAll ==
    \/ UpdateAllSources
    \/ TierReturns
    \/ CallSteps({"run"})
    \/ Switches

SpecUpdateAll == Init /\ [][NextUpdateAll]_vars

\* callers of update_source and the tier jobs of the scheduler, while
\* sources are enabled and disabled and the orchestrator started and stopped
NextSources ==
    \/ \E k \in SourceKeys : UpdateSource(k)
    \/ \E i \in 1..Len(Priorities) : UpdateByPriority(Priorities[i])
    \/ CallSteps({"other"})
    \/ Switches
    \/ Start
    \/ Stop

SpecSources == Init /\ [][NextSources]_vars

----------------------------------------------------------------------------
(* Actions of RAGService *)

outsideRag == << serviceVars, riskVars, analyzerVars, orchestratorVars, kvVars, stepVars >>

\* what initialize() can do: return, or raise after it has created none,
\* one or two of the collections (lines 74-108 and 127-138)
InitializeOutcomes ==
    { [raises |-> FALSE, created |-> CanonicalCollections],
      [raises |-> TRUE, created |-> {}],
      [raises |-> TRUE, created |-> {CHROMA_COLLECTION_MACRO}],
      [raises |-> TRUE, created |-> {CHROMA_COLLECTION_MACRO, CHROMA_COLLECTION_CRYPTO}] }

\* `if not self.initialized: await self.initialize()`: whether the call
\* goes on, and the adapter's fields afterwards
Initialize(init) ==
    /\ initialized \/ init \in InitializeOutcomes
    /\ initialized => init = [raises |-> FALSE, created |-> CanonicalCollections]
    /\ initialized' = (initialized \/ ~init.raises)
    /\ collections' = IF initialized THEN collections ELSE collections \cup init.created

InitializeRaised(init) == ~initialized /\ init.raises

\* the names add_documents is called with
AddNames == { <<"crypto">>, <<"unknown">> }

\* the batches of a call that can fail: none when the call ends before the
\* first batch
Batches(colls, documents, collection_name, batch_size) ==
    IF GetCollection(colls, collection_name) = NoCollection THEN {}
    ELSE 1..BatchCount(Len(RagDocs(documents)), batch_size)

\* RAGService.add_documents, lines 179-281
AddDocuments(documents, collection_name, batch_size, failing, init) ==
    /\ UNCHANGED outsideRag
    /\ nrag < MaxRagCalls
    /\ nrag' = nrag + 1
    /\ Initialize(init)
    /\ failing \subseteq IF InitializeRaised(init) THEN {}
                         ELSE Batches(collections', documents, collection_name, batch_size)
    /\ LET call == [ op |-> "add", documents |-> documents,
                     collection_name |-> collection_name, batch_size |-> batch_size,
                     failing |-> failing, before |-> chroma ]
           done == AddDocumentsTo(collections', chroma, documents,
                                  collection_name, batch_size, failing)
       IN  IF InitializeRaised(init)
           THEN /\ rag' = call @@ [result |-> Raise("initialize failed")]
                /\ chroma' = chroma
           ELSE /\ rag' = call @@ [result |-> Return(done.stats)]
                /\ chroma' = done.holds

\* the names query is called with
QueryNames == { <<"crypto">>, <<"news">>, <<"unknown">> }

\* the positions of the names whose collection can be searched
Searched(colls, names) ==
    { i \in 1..Len(names) : GetCollection(colls, names[i]) # NoCollection }

\* RAGService.query, lines 283-374, with a list of names
Query(names, n_results, embedded, failing, init) ==
    /\ UNCHANGED outsideRag
    /\ nrag < MaxRagCalls
    /\ nrag' = nrag + 1
    /\ Initialize(init)
    /\ InitializeRaised(init) => embedded
    /\ failing \subseteq IF InitializeRaised(init) \/ ~embedded THEN {}
                         ELSE Searched(collections', names)
    /\ chroma' = chroma
    /\ LET call == [ op |-> "query", names |-> names, n_results |-> n_results,
                     embedded |-> embedded, failing |-> failing ]
       IN  IF InitializeRaised(init)
           THEN rag' = call @@ [result |-> Raise("initialize failed")]
           ELSE IF ~embedded
           THEN rag' = call @@ [result |-> Return(QueryResultsUnembedded)]
           ELSE rag' = call @@ [result |-> Return(QueryResults(collections', chroma,
                                                   names, n_results, failing))]

\* RAGService.get_collection_stats for one name, lines 737-786: the key
\* _get_collection resolved the name to, and the statistics returned
GetCollectionStats(collection_name, init) ==
    /\ UNCHANGED outsideRag
    /\ nrag < MaxRagCalls
    /\ nrag' = nrag + 1
    /\ Initialize(init)
    /\ chroma' = chroma
    /\ LET call == [ op |-> "stats", collection_name |-> collection_name ]
           key == GetCollection(collections', collection_name)
       IN  IF InitializeRaised(init)
           THEN rag' = call @@ [result |-> Raise("initialize failed")]
           ELSE rag' = call @@
                  [ key |-> key,
                    result |-> Return(IF key = NoCollection
                                      THEN [document_count |-> 0, exists |-> FALSE]
                                      ELSE [document_count |-> Cardinality(chroma[key]),
                                            exists |-> TRUE]) ]

\* the lists of documents and of names the calls are made with
DocumentLists == SeqsUpTo(Documents, MaxDocs)
NameLists == SeqsUpTo(QueryNames, MaxNames) \ { << >> }

\* add_documents called on a new adapter in front of an empty store
NextRagAdd ==
    \E init \in InitializeOutcomes, documents \in DocumentLists, n \in AddNames,
       b \in BatchSizes, failing \in SUBSET (1..MaxDocs) :
       AddDocuments(documents, n, b, failing, init)

SpecRagAdd == Init /\ [][NextRagAdd]_vars

\* what the persistent store can hold when the adapter is constructed:
\* nothing, or the documents earlier runs have added
StoredBefore ==
    { [c \in CanonicalCollections |-> {}],
      [c \in CanonicalCollections |->
          IF c = CHROMA_COLLECTION_CRYPTO THEN { GenerateId([content |-> "a"]) } ELSE {}],
      [c \in CanonicalCollections |->
          IF c = CHROMA_COLLECTION_CRYPTO
          THEN { GenerateId([content |-> "a"]), GenerateId([content |-> "b"]) }
          ELSE IF c = CHROMA_COLLECTION_NEWS THEN { GenerateId([content |-> "a"]) }
          ELSE {}] }

\* a new adapter in front of a store of StoredBefore
RagQueryInit ==
    /\ ServiceInit /\ RiskIdle /\ AnalyzerIdle /\ OrchestratorInit /\ CacheIdle /\ StepsIdle
    /\ initialized = FALSE
    /\ collections = {}
    /\ chroma \in StoredBefore
    /\ rag = None
    /\ nrag = 0

\* query and get_collection_stats
NextRagQuery ==
    \/ \E init \in InitializeOutcomes, names \in NameLists, r \in ResultLimits,
          embedded \in BOOLEAN, failing \in SUBSET (1..MaxNames) :
          Query(names, r, embedded, failing, init)
    \/ \E n \in CollectionNames, init \in InitializeOutcomes :
          GetCollectionStats(n, init)

SpecRagQuery == RagQueryInit /\ [][NextRagQuery]_vars

----------------------------------------------------------------------------
(* Actions of the secondary cache *)

outsideCache == << cache, pc, state, request, cached_analysis, tasks, response,
                   analysis, stored, invoked, llm_calls, ncalls, seen_age,
                   riskVars, analyzerVars, orchestratorVars, ragVars, stepVars >>

\* either manager, nothing cached yet
CacheInit ==
    /\ ServiceInit /\ RiskIdle /\ AnalyzerIdle /\ OrchestratorInit /\ RagServiceInit /\ StepsIdle
    /\ backend \in Backends
    /\ kv = EmptyDict
    /\ written = EmptyDict
    /\ kvcall = None

\* AnalysisService.cache_analysis, lines 125-140, at instant t, for an
\* Analysis with this query and asset
CacheAnalysis(query, asset_symbol, t, outcome) ==
    /\ UNCHANGED outsideCache
    /\ backend = "memory" => outcome = "stored"
    /\ now' = t
    /\ backend' = backend
    /\ LET key == GenerateCacheKey(query, asset_symbol, "None")
       IN  /\ kv' = CacheSet(backend, kv, key, [query |-> query], CACHE_TTL_SECONDS,
                             t, outcome)
           /\ written' = IF backend = "redis" /\ outcome = "raise" THEN written
                         ELSE DictSet(written, key, t)
           /\ kvcall' = [op |-> "cache_analysis", key |-> key, at |-> t, raised |-> FALSE]

\* AnalysisService.get_cached_analysis, lines 190-211, at instant t
GetCachedAnalysisCall(query, asset_symbol, timeframe, t) ==
    /\ UNCHANGED outsideCache
    /\ now' = t
    /\ UNCHANGED << backend, kv, written >>
    /\ LET key == GenerateCacheKey(query, asset_symbol, timeframe)
           cached == CacheGet(backend, kv, key, t)
       IN  kvcall' = [ op |-> "get_cached_analysis", key |-> key, at |-> t,
                       cached |-> cached, returned |-> ReturnedFromCache(cached) ]

NextSecondaryCache ==
    \/ \E q \in Queries, a \in Assets, t \in Instants, o \in RedisSetOutcomes :
          CacheAnalysis(q, a, t, o)
    \/ \E q \in Queries, a \in Assets, f \in Timeframes, t \in Instants :
          GetCachedAnalysisCall(q, a, f, t)

SpecSecondaryCache == CacheInit /\ [][NextSecondaryCache]_vars

----------------------------------------------------------------------------
(* MacroAnalyst._get_crypto_rag_documents in front of the vector store *)

\* the query texts of the macro analyst
MacroQueries == { "q1", "q2" }

\* MacroAnalyst._get_crypto_rag_documents, lines 226-250: the number of
\* documents it returns; every exception ends in the empty list
GetCryptoRagDocumentsFrom(query, embedded, fails, init) ==
    /\ UNCHANGED outsideRag
    /\ nrag < MaxRagCalls
    /\ nrag' = nrag + 1
    /\ Initialize(init)
    /\ chroma' = chroma
    /\ rag' = [ op |-> "macro_documents", query |-> query, init |-> init,
                result |-> IF InitializeRaised(init) THEN 0
                           ELSE CryptoRagDocuments(collections', chroma, embedded, fails) ]

\* what the persistent store can hold when the macro analyst starts
MacroStoredBefore ==
    { [c \in CanonicalCollections |->
          IF c = CHROMA_COLLECTION_MACRO THEN macro
          ELSE IF c = CHROMA_COLLECTION_CRYPTO THEN crypto ELSE {}] :
      macro \in SUBSET { GenerateId([content |-> "a"]), GenerateId([content |-> "b"]) },
      crypto \in { {}, { GenerateId([content |-> "a"]) } } }

MacroDocumentsInit ==
    /\ ServiceInit /\ RiskIdle /\ AnalyzerIdle /\ OrchestratorInit /\ CacheIdle /\ StepsIdle
    /\ initialized = FALSE
    /\ collections = {}
    /\ chroma \in MacroStoredBefore
    /\ rag = None
    /\ nrag = 0

NextMacroDocuments ==
    \E query \in MacroQueries, embedded \in BOOLEAN, fails \in BOOLEAN,
       init \in InitializeOutcomes :
       GetCryptoRagDocumentsFrom(query, embedded, fails, init)

SpecMacroDocuments == MacroDocumentsInit /\ [][NextMacroDocuments]_vars

----------------------------------------------------------------------------
(* retry_on_failure around NewsAggregator._fetch_page, step by step *)

outsideRetry == << serviceVars, riskVars, analyzerVars, orchestratorVars,
                   ragVars, kvVars, feedVars, initVars >>

\* the wrapper is called and awaits the first attempt, lines 49-52
FetchPageCalled(url) ==
    /\ fetch.at = "idle"
    /\ fetch' = [fetch EXCEPT !.at = "attempting", !.url = url]
    /\ UNCHANGED outsideRetry

\* an attempt ends, lines 51-58: what it returns is returned; its exception
\* is raised when the attempt was the last one, and is followed by a sleep
\* of delay * (attempt + 1) otherwise
AttemptEnds(answer) ==
    /\ fetch.at = "attempting"
    /\ LET attempt == Len(fetch.responses)
           outcome == FetchPage(answer)
           made_now == [fetch EXCEPT !.responses = Append(@, answer)]
       IN  fetch' = IF ~IsRaise(outcome) \/ attempt = MAX_RETRIES - 1
                    THEN [made_now EXCEPT !.at = "ended", !.result = outcome]
                    ELSE [made_now EXCEPT !.at = "sleeping",
                                          !.slept = Append(@, RETRY_DELAY * (attempt + 1))]
    /\ UNCHANGED outsideRetry

\* asyncio.sleep returns and the next attempt is awaited, lines 58, 50-52
SleepEnds ==
    /\ fetch.at = "sleeping"
    /\ fetch' = [fetch EXCEPT !.at = "attempting"]
    /\ UNCHANGED outsideRetry

AttemptReturns == \E answer \in Responses : AttemptEnds(answer)

NextRetry ==
    \/ \E url \in Urls : FetchPageCalled(url)
    \/ AttemptReturns
    \/ SleepEnds

SpecRetry == Init /\ [][NextRetry]_vars

\* the session's timeout (lines 145-146) ends every attempt, and every
\* sleep ends
SpecRetryFair == SpecRetry /\ WF_vars(AttemptReturns) /\ WF_vars(SleepEnds)

----------------------------------------------------------------------------
(* The conversation cache under identifiers of any shape *)

\* conversation ids and asset symbols as the callers may send them, one
\* character a token: "c", "c:1" and "d"; "B" and "1:B"
AnyConversations == { <<"c">>, <<"c", ":", "1">>, <<"d">> }
AnyAssets == { <<"B">>, <<"1", ":", "B">> }

outsideConversationCache ==
    << now, pc, state, tasks, response, analysis, stored, invoked, llm_calls,
       ncalls, seen_age, outsideService >>

\* _cache_analysis_for_conversation, lines 259-284, as analyze calls it
\* with the Analysis of a request (lines 102-105)
CacheAnalysisForConversation(conversation_id, asset_symbol, query) ==
    /\ cache' = CacheAfterAnalysis(cache, conversation_id, asset_symbol,
                                   FallbackAnalysis(query, asset_symbol), now)
    /\ request' = [query |-> query, asset_symbol |-> asset_symbol,
                   conversation_id |-> conversation_id, context |-> None]
    /\ cached_analysis' = None
    /\ UNCHANGED outsideConversationCache

\* _get_cached_analysis_for_conversation, lines 227-257
GetCachedAnalysisForConversation(conversation_id, asset_symbol) ==
    /\ cached_analysis' = GetCachedAnalysis(cache, conversation_id, asset_symbol, now)
    /\ cache' = CacheAfterLookup(cache, conversation_id, asset_symbol, now)
    /\ request' = [query |-> "", asset_symbol |-> asset_symbol,
                   conversation_id |-> conversation_id, context |-> None]
    /\ UNCHANGED outsideConversationCache

\* clear_cache_for_context, lines 213-225
ClearCacheForContextCall(conversation_id) ==
    /\ cache' = ClearCacheForContext(cache, conversation_id)
    /\ request' = [query |-> "", asset_symbol |-> << >>,
                   conversation_id |-> conversation_id, context |-> None]
    /\ cached_analysis' = None
    /\ UNCHANGED outsideConversationCache

NextConversationCache ==
    \/ \E c \in AnyConversations, a \in AnyAssets, q \in Queries :
          CacheAnalysisForConversation(c, a, q)
    \/ \E c \in AnyConversations, a \in AnyAssets :
          GetCachedAnalysisForConversation(c, a)
    \/ \E c \in AnyConversations : ClearCacheForContextCall(c)

SpecConversationCache == Init /\ [][NextConversationCache]_vars

----------------------------------------------------------------------------
(* RAGService.initialize under operations started side by side *)

outsideInitialize == << serviceVars, riskVars, analyzerVars, orchestratorVars,
                        kvVars, feedVars, retryVars, chroma, rag, nrag >>

\* the operations that begin with `await self.initialize()`
OperationKinds == { "add_documents", "query", "initialize" }

\* where an operation is once initialize has returned: initialize itself
\* has returned to its caller, the others go on to use the service
AfterInitialize(kind) ==
    [at |-> IF kind = "initialize" THEN "returned" ELSE "using", kind |-> kind]

\* an operation starts, lines 69-96: initialize returns at once when the
\* flag is set; otherwise it creates the client and awaits the loading of
\* the embedding model in the executor, or raises when the client cannot
\* be created
OperationStarts(o, kind, client_created) ==
    /\ ops[o].at = "none"
    /\ IF initialized
       THEN /\ ops' = [ops EXCEPT ![o] = AfterInitialize(kind)]
            /\ made' = made
       ELSE IF client_created
       THEN /\ ops' = [ops EXCEPT ![o] = [at |-> "loading", kind |-> kind]]
            /\ made' = [made EXCEPT !.client = @ + 1]
       ELSE /\ ops' = [ops EXCEPT ![o] = [at |-> "raised", kind |-> kind]]
            /\ made' = made
    /\ UNCHANGED << initialized, collections, outsideInitialize >>

\* the executor has loaded the model, lines 96-104: the collections are
\* set up and the flag is set; or the loading raised, lines 106-108
ModelLoaded(o, loaded) ==
    /\ ops[o].at = "loading"
    /\ IF loaded
       THEN /\ made' = [made EXCEPT !.embedding_model = @ + 1, !.collections = @ + 1]
            /\ collections' = CanonicalCollections
            /\ initialized' = TRUE
            /\ ops' = [ops EXCEPT ![o] = AfterInitialize(ops[o].kind)]
       ELSE /\ ops' = [ops EXCEPT ![o].at = "raised"]
            /\ UNCHANGED << made, collections, initialized >>
    /\ UNCHANGED outsideInitialize

\* an operation that used the service returns
OperationReturns(o) ==
    /\ ops[o].at = "using"
    /\ ops' = [ops EXCEPT ![o].at = "returned"]
    /\ UNCHANGED << made, initialized, collections, outsideInitialize >>

NextInitialize ==
    \/ \E o \in Operations, kind \in OperationKinds, client_created \in BOOLEAN :
          OperationStarts(o, kind, client_created)
    \/ \E o \in Operations, loaded \in BOOLEAN : ModelLoaded(o, loaded)
    \/ \E o \in Operations : OperationReturns(o)

SpecInitialize == Init /\ [][NextInitialize]_vars

----------------------------------------------------------------------------
(* TechnicalAnalyst._collect_technical_data, step by step *)

outsideFeeds == << serviceVars, riskVars, analyzerVars, orchestratorVars,
                   ragVars, kvVars, retryVars, initVars >>

\* the call ends with `outcome`
CollectEnds(outcome) ==
    [collect EXCEPT !.at = "ended", !.result = outcome]

\* _collect_technical_data(symbol) is called and awaits _get_binance_data,
\* line 146
CollectTechnicalDataCalled(symbol) ==
    /\ collect.at \in {"idle", "ended"}
    /\ Len(collect.earlier) + (IF collect.at = "ended" THEN 1 ELSE 0) < MaxCollects
    /\ collect' = [at |-> "binance", symbol |-> symbol, queried |-> << "binance" >>,
                   result |-> None,
                   earlier |-> IF collect.at = "ended"
                               THEN Append(collect.earlier, collect.result)
                               ELSE collect.earlier]
    /\ UNCHANGED outsideFeeds

\* a _get_binance_data that answers after CoinGecko was asked as well
GetBinanceDataAskingBoth(outcome) ==
    /\ collect.at = "binance"
    /\ collect' = IF IsRaise(outcome)
                  THEN [collect EXCEPT !.at = "coingecko",
                                       !.queried = Append(@, "coingecko")]
                  ELSE [CollectEnds(outcome) EXCEPT !.queried = Append(@, "coingecko")]
    /\ UNCHANGED outsideFeeds

\* _get_binance_data ends, lines 144-150: its dict is returned, its
\* exception is logged and _get_coingecko_data awaited
GetBinanceData(outcome) ==
    /\ collect.at = "binance"
    /\ collect' = IF IsRaise(outcome)
                  THEN [collect EXCEPT !.at = "coingecko",
                                       !.queried = Append(@, "coingecko")]
                  ELSE CollectEnds(outcome)
    /\ UNCHANGED outsideFeeds

\* _get_coingecko_data ends, lines 149-153: its dict is returned, its
\* exception is logged and the empty dict returned
GetCoinGeckoData(outcome) ==
    /\ collect.at = "coingecko"
    /\ collect' = IF IsRaise(outcome)
                  THEN CollectEnds(Return(EmptyDict))
                  ELSE CollectEnds(outcome)
    /\ UNCHANGED outsideFeeds

NextFeeds ==
    \/ \E symbol \in FeedSymbols : CollectTechnicalDataCalled(symbol)
    \/ \E outcome \in BinanceOutcomes : GetBinanceData(outcome)
    \/ \E outcome \in CoinGeckoOutcomes : GetCoinGeckoData(outcome)

SpecFeeds == Init /\ [][NextFeeds]_vars

----------------------------------------------------------------------------
(* Properties *)

\* the cache key of the request in progress
RequestKey == request.conversation_id \o <<":">> \o request.asset_symbol

\* the request belongs to a conversation
Scoped == pc # "Idle" /\ request.conversation_id # NoConversation

\* analyze has produced the Analysis it returns
Produced == pc \in {"Store", "Returned"}

\* C1: a request that finds an entry for its (conversation_id, asset_symbol)
\* aged at most 30 minutes, exactly 30 included, is answered from that entry:
\* it never enters the pipeline, starts no analyzer and makes no synthesis
\* model call, and the entry stays as it was.
C1_FreshEntryReused ==
    (Scoped /\ seen_age >= 0 /\ seen_age * TickMinutes <= FRESH_MINUTES) =>
        /\ Produced
        /\ state = "None"
        /\ invoked = {}
        /\ llm_calls = 0
        /\ cached_analysis # None
        /\ RequestKey \in DOMAIN cache
        /\ cache[RequestKey] = cached_analysis
        /\ analysis.overall_confidence = cached_analysis.confidence
        /\ analysis.outlook = MarketOutlook(cached_analysis.outlook)
        /\ analysis.trading_action = TradingAction(cached_analysis.trading_action)

\* a follow-up served from an entry aged exactly 30 minutes
C1_Witness ==
    /\ Scoped /\ pc = "Returned"
    /\ seen_age * TickMinutes = FRESH_MINUTES
    /\ invoked = {}

\* C2: a request that finds an entry aged more than 30 minutes evicts it (no
\* entry for the key while the pipeline runs), runs the pipeline, and when
\* the pipeline has returned, all three analyzers and the synthesis call
\* have run and the key holds a new entry, stamped with the instant of the
\* write and holding the new Analysis.
C2_StaleEntryRecomputed ==
    (Scoped /\ seen_age * TickMinutes > FRESH_MINUTES) =>
        /\ cached_analysis = None
        /\ state # "None"
        /\ (pc \in {"Synth", "Raised"} => RequestKey \notin DOMAIN cache)
        /\ (Produced =>
              /\ state = "Complete"
              /\ invoked = Branches
              /\ llm_calls = 1
              /\ RequestKey \in DOMAIN cache
              /\ cache[RequestKey].timestamp = IsoFormat(now)
              /\ cache[RequestKey].analysis_dict = ToDict(analysis))

\* a stale entry was replaced and the request has returned
C2_Witness ==
    /\ Scoped /\ pc = "Returned"
    /\ seen_age * TickMinutes > FRESH_MINUTES
    /\ RequestKey \in DOMAIN cache
    /\ FromIsoFormat(cache[RequestKey].timestamp) = now

\* C3: no step of a request without conversation_id changes the
\* conversation cache, its first step included, and whenever such a request
\* has produced its Analysis it has run all three analyzers and the
\* synthesis call, whatever the cache holds and however many such requests
\* came before.
C3_NoConversationNeverCached ==
    [][ (pc' # "Idle" /\ request'.conversation_id = NoConversation) =>
            /\ cache' = cache
            /\ (pc' \in {"Store", "Returned"} =>
                  /\ state' = "Complete"
                  /\ invoked' = Branches
                  /\ llm_calls' = 1) ]_vars

\* a second request, without conversation_id, has run the analyzers again
C3_Witness ==
    /\ ncalls = 2
    /\ pc = "Returned"
    /\ request.conversation_id = NoConversation
    /\ invoked = Branches

\* C4: a request of a conversation that finds no entry for its key enters
\* the pipeline, and once the pipeline has returned an Analysis the cache
\* holds an entry for that key and no other, which is the snapshot of that
\* Analysis.
C4_MissComputedThenStored ==
    (Scoped /\ seen_age = -1) =>
        /\ cached_analysis = None
        /\ state # "None"
        /\ (Produced =>
              /\ invoked = Branches
              /\ llm_calls = 1
              /\ DOMAIN cache = {RequestKey}
              /\ cache[RequestKey].outlook = EnumValue(MarketOutlookMembers, analysis.outlook)
              /\ cache[RequestKey].confidence = analysis.overall_confidence
              /\ cache[RequestKey].trading_action =
                     EnumValue(TradingActionMembers, analysis.trading_action)
              /\ cache[RequestKey].analysis_dict = ToDict(analysis))

\* a first request of a conversation has returned and its entry is stored
C4_Witness ==
    /\ Scoped /\ pc = "Returned"
    /\ seen_age = -1
    /\ RequestKey \in DOMAIN cache

\* C5: the Analysis of a follow-up answered from the cache has
\* investment_thesis equal to "Based on previous analysis".
C5_FollowUpThesisIsPlaceholder ==
    (Produced /\ cached_analysis # None) =>
        analysis.investment_thesis = "Based on previous analysis"

\* C6: the synthesis model call is made only when all three analyzer
\* coroutines have ended, by returning or by raising: while one is still
\* running no call has been made, an exception of one branch included, and
\* from the call on every branch has its own result.
C6_SynthesisAfterAllBranches ==
    /\ (state \in {"Pending", "FanningOut"} => llm_calls = 0)
    /\ (state \in {"Synthesizing", "Complete", "Failed"} => llm_calls = 1)
    /\ (llm_calls > 0 => \A b \in Branches : tasks[b] \notin {NotStarted, Running})

\* the synthesis call is in progress after one branch raised and the other
\* two returned
C6_Witness ==
    /\ state = "Synthesizing"
    /\ tasks["technical"] = [error |-> "boom"]
    /\ tasks["macro"] = AnalyzerDict(18)
    /\ tasks["sentiment"] = AnalyzerDict(18)

\* the branches that raised, once gather has returned
Raised == { b \in Branches : "error" \in DOMAIN tasks[b] }

\* SynthesisAgent.analyze has ended
Ended == state \in {"Complete", "Failed"}

\* C7: when exactly one analyzer branch raised, the other two returned a
\* confidence in [0,1], and the synthesis model answered with text or with a
\* well-formed object, synthesize returns an Analysis whose
\* overall_confidence is the mean of three values: the two confidences and a
\* fallback confidence of at most 0.3 for the failed branch.
C7_OneFailureAveragesLowFallback ==
    (/\ Ended
     /\ Cardinality(Raised) = 1
     /\ \A b \in Branches \ Raised :
           /\ "confidence" \in DOMAIN tasks[b]
           /\ 0 <= tasks[b].confidence /\ tasks[b].confidence <= 30
     /\ response \in {LlmMalformed, LlmFull, LlmSparse}) =>
        /\ state = "Complete"
        /\ LET first == CHOOSE b \in Branches \ Raised : TRUE
               second == CHOOSE b \in Branches \ (Raised \cup {first}) : TRUE
           IN  \E fallback \in 0 .. 9 :
                  3 * analysis.overall_confidence =
                      tasks[first].confidence + tasks[second].confidence + fallback

\* C8: synthesize raises only when the synthesis model call itself fails;
\* in every other case it returns an Analysis whose outlook, trading_action
\* and risk_level are members of their enumerations.
C8_FailsOnlyWhenModelCallFails ==
    /\ (state = "Failed" => response = LlmFailure)
    /\ (state = "Complete" =>
          /\ analysis.outlook \in Names(MarketOutlookMembers)
          /\ analysis.trading_action \in Names(TradingActionMembers)
          /\ analysis.risk_level \in Names(RiskLevelMembers))

\* C9: when the synthesis model's output is no JSON, synthesize returns an
\* Analysis with executive_summary the raw text and outlook neutral.
C9_MalformedSynthesisFallsBack ==
    (Ended /\ response = LlmMalformed) =>
        /\ state = "Complete"
        /\ analysis.executive_summary = LlmMalformed.text
        /\ analysis.outlook = "NEUTRAL"

\* C10: every Analysis that analyze returns, from the pipeline or rebuilt
\* from the cache, has overall_confidence and risk_score in [0,1] with
\* risk_score = 1 - overall_confidence.
C10_ReturnedScoresInRange ==
    Produced =>
        /\ 0 <= analysis.overall_confidence /\ analysis.overall_confidence <= 30
        /\ 0 <= analysis.risk_score /\ analysis.risk_score <= 30
        /\ analysis.risk_score = 30 - analysis.overall_confidence

\* an Analysis rebuilt from the cache whose risk_score is not the 0.5 it was
\* constructed with
C10_Witness ==
    /\ pc = "Returned"
    /\ cached_analysis # None
    /\ analysis.risk_score # CACHED_RISK_SCORE

----------------------------------------------------------------------------
(* Properties of the risk bucketing and of the analyzers *)

\* C11: the level _get_risk_level returns is a function of the score
\* alone, defined for every score, with closed lower and open upper bounds:
\* below 0.2 very_low, from 0.2 to below 0.4 low, from 0.4 to below 0.6
\* medium, from 0.6 to below 0.8 high, from 0.8 on very_high; 0.2 itself is
\* low and the score next below it is very_low.
C11_RiskBucketsBoundaryExact ==
    level # "None" =>
        /\ level \in Names(RiskLevelMembers)
        /\ EnumValue(RiskLevelMembers, level) =
               IF 5 * score < ONE THEN "very_low"
               ELSE IF 5 * score < 2 * ONE THEN "low"
               ELSE IF 5 * score < 3 * ONE THEN "medium"
               ELSE IF 5 * score < 4 * ONE THEN "high"
               ELSE "very_high"

\* the call on 0.2 has returned low
C11_Witness == 5 * score = ONE /\ level = "LOW"

\* analyze has returned or raised
AnalyzerEnded == agent_result # None

\* an opinion: a dict that names its agent and states a confidence
IsOpinion(result) ==
    /\ ~IsRaise(result)
    /\ "agent_name" \in DOMAIN result
    /\ "confidence" \in DOMAIN result

\* the failures the call met: of an evidence source, of the vector store,
\* of the model call, of the shape of the model's answer
EvidenceFailed ==
    IF agent_input.agent = "macro"
    THEN IsRaise(agent_input.fred) \/ IsRaise(agent_input.news)
    ELSE IsRaise(agent_input.binance) \/ IsRaise(agent_input.coingecko)
VectorStoreFailed == agent_input.store.initialize = "raise"
ModelCallFailed == agent_input.llm.kind = "raise"
ModelOutputMalformed ==
    \/ agent_input.llm.kind = "text"
    \/ agent_input.llm.kind = "json" /\ ~agent_input.llm.object

\* C12: whatever fails during analyze (evidence sources, the vector store,
\* the model call, the shape of the model's answer, in any combination),
\* analyze raises nothing to its caller: it ends with an opinion.
C12_AnalyzeNeverRaises == AnalyzerEnded => IsOpinion(agent_result)

\* the technical analyzer has ended with an opinion although an evidence
\* source, the vector store and the model call all failed
C12_Witness ==
    /\ AnalyzerEnded /\ agent_input.agent = "technical"
    /\ EvidenceFailed /\ VectorStoreFailed /\ ModelCallFailed
    /\ IsOpinion(agent_result)

\* the run failed completely: the body of analyze did not reach its end,
\* or the macro analyzer's model call failed and its fallback stood in
FailedCompletely ==
    IF agent_input.agent = "macro"
    THEN IsRaise(MacroTry(agent_input)) \/ ModelCallFailed
    ELSE IsRaise(TechnicalTry(agent_input))

\* C13: the opinion of a run that failed completely has a confidence from
\* 0.1 to 0.3 and a summary that explains the failure, for the macro and
\* for the technical analyzer.
C13_FailedRunLowConfidenceWithSummary ==
    (AnalyzerEnded /\ FailedCompletely) =>
        /\ HUNDRED <= 10 * agent_result.confidence
        /\ 10 * agent_result.confidence <= 3 * HUNDRED
        /\ "summary" \in DOMAIN agent_result

\* C14: when one analyzer never ends, it alone counts as failed: the other
\* two are not aborted and the request still ends, with an analysis or
\* with an error, instead of waiting for ever.
C14_HungBranchRequestTerminates ==
    (pc = "Synth" /\ state = "FanningOut") ~> (pc \in {"Store", "Returned", "Raised"})

----------------------------------------------------------------------------
(* Properties of DataOrchestrator *)

\* the position in Priorities of the tier of source k
TierOf(k) == CHOOSE i \in 1..Len(Priorities) : Priorities[i] = sources[k].priority

\* the sources update_all_sources grouped when its current run started
InRun == IF run.pc = "idle" THEN {}
         ELSE UNION { run.groups[p] : p \in DOMAIN run.groups }

\* C15: in a run of update_all_sources the tiers go in the order critical,
\* high, medium, low: a coroutine for a source of a lower tier exists only
\* when every coroutine of the run for a source of a higher tier has
\* returned; the coroutines of one tier run side by side.
C15_TiersInOrder ==
    \A k \in InRun, j \in InRun :
        (TierOf(j) < TierOf(k) /\ calls["run"][k].at # "none")
            => calls["run"][j].at = "returned"

\* the update of the high-tier source is fetching, the critical ones are done
C15_Witness ==
    /\ run.pc = "tier"
    /\ calls["run"]["reuters_forex"].at = "fetching"
    /\ calls["run"]["coindesk_markets"].at = "returned"
    /\ calls["run"]["market_data_api"].at = "returned"

\* C16: an update_source of an enabled source counts as a failed update
\* (result success false, failed_updates one more, successful_updates the
\* same) when the fetch returns no documents, and also when the vector
\* store does not add the fetched documents: collection not found, every
\* batch rejected, or add_documents raising.
C16_EmptyFetchAndStoreFailureCountAsFailed ==
    [][\A o \in Origins, k \in SourceKeys :
          (\/ FetchReturns(o, k, Return(0))
           \/ \E r \in AddFailures(FETCHED) : AddReturns(o, k, r))
          => /\ ~calls'[o][k].result.success
             /\ stats'.failed_updates = stats.failed_updates + 1
             /\ stats'.successful_updates = stats.successful_updates]_vars

\* in this step the update_source coroutine of origin o for key k runs its
\* first statements
Starts(o, k) ==
    /\ calls[o][k].at \in {"none", "created", "returned"}
    /\ calls'[o][k].at \in {"fetching", "returned"}
    /\ calls'[o][k] # calls[o][k]

SourceDisabled == Returned([success |-> FALSE, error |-> "Source disabled"])

\* C17: while a source is disabled, an update_source that starts for it
\* fetches nothing, writes nothing and returns a failure; enable_source
\* and disable_source change the enabled flag of their source and nothing
\* else: not the other sources, not the running flag, not the jobs.
C17_DisabledSourceIsSkipped ==
    [][/\ \A o \in Origins, k \in SourceKeys :
             (~sources[k].enabled /\ Starts(o, k))
                 => /\ calls'[o][k] = SourceDisabled
                    /\ stats' = stats
                    /\ sources' = sources
       /\ \A k \in SourceKeys \cup {UnknownKey} :
             (EnableSource(k) \/ DisableSource(k))
                 => /\ running' = running
                    /\ jobs' = jobs
                    /\ \A j \in SourceKeys :
                          [sources'[j] EXCEPT !.enabled = sources[j].enabled] = sources[j]
                    /\ \A j \in SourceKeys \ {k} : sources'[j] = sources[j]]_vars

\* the orchestrator is started and an update of a disabled source has
\* returned its failure
C17_Witness ==
    /\ running /\ jobs = JobIds
    /\ \E k \in SourceKeys :
          ~sources[k].enabled /\ calls["other"][k] = SourceDisabled

\* C18: disabling a source during a run of update_all_sources does not
\* touch that run: every source that was enabled when the run started is
\* fetched in it.
C18_DisableDuringRunNotRetroactive ==
    run.pc = "done" =>
        \A k \in InRun : /\ calls["run"][k].at = "returned"
                         /\ calls["run"][k] # SourceDisabled

\* C19: the registry keeps its keys, whatever is called; the enabled flag
\* of a source changes only in a step of enable_source or disable_source
\* for that source, never in an update, successful or failed.
C19_RegistryFixed ==
    [][/\ DOMAIN sources' = DOMAIN sources
       /\ DOMAIN sources = SourceKeys
       /\ \A k \in SourceKeys :
             sources'[k].enabled # sources[k].enabled
                 => EnableSource(k) \/ DisableSource(k)]_vars

\* an update has failed and its source is still registered and enabled
C19_Witness ==
    \E k \in SourceKeys :
        /\ calls["other"][k].at = "returned"
        /\ "errors" \in DOMAIN calls["other"][k].result
        /\ ~calls["other"][k].result.success
        /\ stats.failed_updates > 0
        /\ k \in DOMAIN sources /\ sources[k].enabled

\* C20: every fetch attempt on an enabled source, failed or successful,
\* adds one to the source's total_fetches.
C20_EveryFetchAttemptCounted ==
    [][\A o \in Origins, k \in SourceKeys :
          (calls[o][k].at \in {"fetching", "adding"} /\ calls'[o][k].at = "returned")
              => sources'[k].total_fetches = sources[k].total_fetches + 1]_vars


----------------------------------------------------------------------------
(* Properties of RAGService *)

\* the last call of the adapter was `op`
RagCall(op) == "op" \in DOMAIN rag /\ rag.op = op

\* the last call returned
RagReturned == ~IsRaise(rag.result)

\* the key the name of the last add_documents call resolves to
AddKey == GetCollection(collections, rag.collection_name)

\* C21: in add_documents a failing batch does not abort the others: every
\* batch of the submitted documents is attempted, no exception reaches the
\* caller, and successful + failed of the returned statistics is the number
\* of documents submitted.
C21_AddAttemptsEveryBatchAndCountsAll ==
    RagCall("add") =>
        /\ RagReturned
        /\ rag.result.value.batches =
               BatchCount(Len(RagDocs(rag.documents)), rag.batch_size)
        /\ rag.result.value.successful + rag.result.value.failed = Len(rag.documents)

\* the positions of document d among the submitted documents
Occurrences(d) == { i \in 1..Len(rag.documents) : rag.documents[i] = d }

\* C22: a document submitted twice to the same collection, twice in one
\* add_documents call or in a call after the one that stored it, has one
\* stored entry afterwards (when the store itself does not fail).
C22_SameDocumentStoredOnce ==
    (RagCall("add") /\ RagReturned /\ rag.failing = {} /\ AddKey # NoCollection) =>
        \A d \in { x \in Documents : Convertible(x) } :
            (\/ Cardinality(Occurrences(d)) >= 2
             \/ Occurrences(d) # {} /\ GenerateId(d) \in rag.before[AddKey])
            => GenerateId(d) \in chroma[AddKey]

\* the submitted documents whose id the collection did not hold before
NewDocuments ==
    { i \in 1..Len(rag.documents) :
        /\ Convertible(rag.documents[i])
        /\ GenerateId(rag.documents[i]) \notin rag.before[AddKey] }

\* C23: add_documents does not count as successful a document whose id the
\* collection already held: its success count is at most the number of
\* submitted documents that were not yet stored.
C23_ReAddNotCountedAsSuccess ==
    (RagCall("add") /\ RagReturned /\ AddKey # NoCollection) =>
        rag.result.value.successful <= Cardinality(NewDocuments)

RECURSIVE SumCounts(_, _)
SumCounts(entries, keys) ==
    IF keys = {} THEN 0
    ELSE LET k == CHOOSE x \in keys : TRUE
         IN  entries[k].count + SumCounts(entries, keys \ {k})

\* C24: query searches each named collection on its own: a name that does
\* not resolve, or whose search fails, gets an entry with count 0 and an
\* error, every other name gets its entry too, no exception reaches the
\* caller, and total_results is the sum of the counts of the entries.
C24_QueryPerCollectionAndTotalIsSum ==
    (RagCall("query") /\ RagReturned /\ rag.embedded) =>
        LET found == rag.result.value.collections
        IN  /\ \A i \in 1..Len(rag.names) : rag.names[i] \in DOMAIN found
            /\ \A i \in 1..Len(rag.names) :
                  (\/ GetCollection(collections, rag.names[i]) = NoCollection
                   \/ \A j \in 1..Len(rag.names) :
                         rag.names[j] = rag.names[i] => j \in rag.failing)
                  => /\ found[rag.names[i]].count = 0
                     /\ "error" \in DOMAIN found[rag.names[i]]
            /\ rag.result.value.total_results = SumCounts(found, DOMAIN found)

\* the names _get_collection is said to try, in order: the table's entry for
\* the name, the name itself, the name with each suffix
Candidates(name) ==
    (IF name \in DOMAIN CollectionMapping THEN << CollectionMapping[name] >> ELSE << >>)
    \o << name, Append(name, "_data"), Append(name, "_sentiment"),
          Append(name, "_collection") >>

\* C25: _get_collection returns the first existing collection among the
\* table's entry for the name, the name as given and its suffix variants,
\* reports not-found only when none of them exists, and so resolves
\* "crypto", "news" and "macro" to their canonical collections whenever
\* these exist.
C25_ResolutionOrder ==
    (RagCall("stats") /\ RagReturned) =>
        LET tried == Candidates(rag.collection_name)
            existing == { i \in 1..Len(tried) : tried[i] \in collections }
        IN  /\ existing # {} =>
                  rag.key = tried[CHOOSE i \in existing : \A j \in existing : i <= j]
            /\ rag.key = NoCollection => existing = {}
            /\ (rag.collection_name = <<"crypto">> /\ CHROMA_COLLECTION_CRYPTO \in collections)
                  => rag.key = CHROMA_COLLECTION_CRYPTO
            /\ (rag.collection_name = <<"news">> /\ CHROMA_COLLECTION_NEWS \in collections)
                  => rag.key = CHROMA_COLLECTION_NEWS
            /\ (rag.collection_name = <<"macro">> /\ CHROMA_COLLECTION_MACRO \in collections)
                  => rag.key = CHROMA_COLLECTION_MACRO

\* a logical name has been resolved to the news collection, and the store
\* holds documents of an earlier call
C25_Witness ==
    /\ RagCall("stats") /\ RagReturned
    /\ rag.collection_name = <<"news">>
    /\ rag.key = CHROMA_COLLECTION_NEWS
    /\ chroma[CHROMA_COLLECTION_CRYPTO] # {}

----------------------------------------------------------------------------
(* Properties of the answers rebuilt from the conversation cache, of the   *)
(* secondary cache and of the database write                                *)

\* the request was answered from the conversation cache
FromCache == Produced /\ cached_analysis # None

\* C26: an Analysis rebuilt from a cache entry has the query of the new
\* request and the outlook, overall_confidence and trading_action of the
\* Analysis that was cached for the conversation and asset; the cached
\* entry is left as it was.
C26_RebuiltCarriesCachedVerdict ==
    FromCache =>
        LET was == cached_analysis.analysis_dict
        IN  /\ analysis.query = request.query
            /\ analysis.outlook = MarketOutlook(was.outlook)
            /\ analysis.overall_confidence = was.overall_confidence
            /\ analysis.trading_action = TradingAction(was.trading_action)
            /\ RequestKey \in DOMAIN cache
            /\ cache[RequestKey] = cached_analysis

\* a follow-up with another query text than the one whose answer was cached
C26_Witness ==
    /\ FromCache
    /\ pc = "Returned"
    /\ request.query # cached_analysis.analysis_dict.query
    /\ analysis.outlook = "BULLISH"

\* C27: the answer rebuilt from the cache has the shape of the fresh answer
\* it was cached from: the same fields, the three analyzer opinions
\* included, with the same values except for query and investment_thesis.
C27_RebuiltHasShapeOfFresh ==
    FromCache =>
        LET fresh == cached_analysis.analysis_dict
            rebuilt == ToDict(analysis)
        IN  /\ DOMAIN rebuilt = DOMAIN fresh
            /\ \A k \in DOMAIN fresh \ {"query", "investment_thesis"} :
                  rebuilt[k] = fresh[k]

\* the last call of the secondary cache was `op`
KvCall(op) == "op" \in DOMAIN kvcall /\ kvcall.op = op

\* C28: what cache_analysis wrote is gone 30 minutes later: a lookup of its
\* key more than 1800 seconds after the write gets nothing from the cache
\* manager, the in-memory one or Redis; and cache_analysis never raises.
C28_SecondaryEntryExpires ==
    /\ KvCall("cache_analysis") => ~kvcall.raised
    /\ (/\ KvCall("get_cached_analysis")
        /\ kvcall.key \in DOMAIN written
        /\ (kvcall.at - written[kvcall.key]) * TickMinutes * SECONDS_PER_MINUTE
               > CACHE_TTL_SECONDS)
       => kvcall.cached = None

C30_ReturnedAssetIsRequested ==
    Produced => analysis.asset_symbol = request.asset_symbol

----------------------------------------------------------------------------
(* Properties of the analyzers' confidence and evidence *)

\* the body of analyze reached its end on an answer of the model that is a
\* JSON object stating a confidence
ModelStated ==
    /\ AnalyzerEnded /\ ~FailedCompletely
    /\ agent_input.llm.kind = "json" /\ agent_input.llm.object
    /\ "confidence" \in DOMAIN agent_input.llm.value

\* the evidence-quality score the opinion records
HasQualityScore(result) ==
    /\ "data_sources" \in DOMAIN result
    /\ "crypto_data_quality_score" \in DOMAIN result.data_sources
QualityScore(result) == result.data_sources.crypto_data_quality_score

\* the numbers of news articles and of documents available to a call of
\* the macro analyzer
NewsAvailable(input) == CollectCryptoNewsData(input.news)
DocumentsAvailable(input) == GetCryptoRagDocuments(input.store)

\* the quality score of a call of the macro analyzer
QualityOf(input) ==
    CryptoDataQuality(CollectEconomicData(input.fred),
                      NewsAvailable(input), DocumentsAvailable(input))

\* C31: the confidence an analyzer (macro or technical) reports is 0.6
\* times the confidence the model stated plus 0.4 times an evidence-quality
\* score from 0 to 1 that the analyzer computed, to two decimals; the score
\* does not decrease with more news items or documents available; and the
\* reported confidence is from 0 to 1 whenever the stated one is.
C31_ConfidenceIsBlendOfStatedAndQuality ==
    ModelStated =>
        LET stated == agent_input.llm.value.confidence
        IN  /\ HasQualityScore(agent_result)
            /\ QualityScore(agent_result) \in 0..HUNDRED
            /\ 10 * agent_result.confidence - 5
                   <= CONFIDENCE_WEIGHT * stated + QUALITY_WEIGHT * QualityScore(agent_result)
            /\ CONFIDENCE_WEIGHT * stated + QUALITY_WEIGHT * QualityScore(agent_result)
                   < 10 * agent_result.confidence + 5
            /\ \A other \in MacroInputs :
                   (/\ agent_input.agent = "macro"
                    /\ NewsAvailable(other) <= NewsAvailable(agent_input)
                    /\ DocumentsAvailable(other) <= DocumentsAvailable(agent_input))
                       => QualityOf(other) <= QualityScore(agent_result)
            /\ stated \in 0..HUNDRED => agent_result.confidence \in 0..HUNDRED

\* C32: the technical analyzer's price feeds are tried in order and the
\* chain stops at the first success: CoinGecko is queried only after
\* Binance has failed, the empty default is returned only after both have
\* failed, a Binance answer is returned without CoinGecko being queried,
\* and no failure of a feed is raised to the caller.
C32_FeedsAreAnOrderedFallbackChain ==
    [][/\ \A outcome \in BinanceOutcomes :
              GetBinanceData(outcome) =>
                  IF IsRaise(outcome)
                  THEN collect'.at = "coingecko"
                       /\ collect'.queried = << "binance", "coingecko" >>
                  ELSE collect'.at = "ended" /\ collect'.result = outcome
                       /\ collect'.queried = << "binance" >>
       /\ \A outcome \in CoinGeckoOutcomes :
              GetCoinGeckoData(outcome) =>
                  /\ collect.queried = << "binance", "coingecko" >>
                  /\ collect'.queried = collect.queried
                  /\ collect'.at = "ended"
                  /\ ~IsRaise(collect'.result)
                  /\ IF IsRaise(outcome)
                     THEN DOMAIN collect'.result.value = {}
                     ELSE collect'.result = outcome
       /\ \A symbol \in FeedSymbols :
              CollectTechnicalDataCalled(symbol) => collect'.queried = << "binance" >>
      ]_vars

\* a call has ended with the empty default after both feeds were queried,
\* after an earlier call ended with Binance's answer
C32_Witness ==
    /\ collect.at = "ended"
    /\ collect.queried = << "binance", "coingecko" >>
    /\ DOMAIN collect.result.value = {}
    /\ Len(collect.earlier) = 1
    /\ DOMAIN collect.earlier[1].value # {}
    /\ collect.earlier[1].value.source = "binance"

\* C33: every analysis analyze returns, computed or rebuilt from the
\* conversation cache, has the risk_level that is the bucket of its own
\* risk_score.
C33_RiskLevelIsBucketOfRiskScore ==
    Produced => analysis.risk_level = GetRiskLevel(analysis.risk_score)

\* C34: when the macro analyzer cannot use the crypto-specific macro
\* collection (no collection of that name, or its query fails), it asks the
\* general macro collection and returns that collection's matching
\* documents, not an empty list.
C34_FallsBackToGeneralMacroCollection ==
    (RagCall("macro_documents") /\ ~rag.init.raises
     /\ GetCollection(collections, CryptoMacroName) = NoCollection)
        => rag.result = SearchCount(chroma[CHROMA_COLLECTION_MACRO], MACRO_RAG_RESULTS)

----------------------------------------------------------------------------
(* Properties of retry_on_failure around _fetch_page *)

\* session.get ended with a answer or with the timeout: _fetch_page
\* returns
Answered(answer) == answer.kind \in {"response", "timeout"}

\* what the call has done so far is what the claim allows
RetriedAsStated ==
    LET n == Len(fetch.responses)
    IN  /\ n <= MAX_RETRIES
        \* every attempt but the last one made ended with an exception
        /\ \A i \in 1..(n - 1) : ~Answered(fetch.responses[i])
        \* the delays slept so far increase strictly
        /\ \A i \in 1..(Len(fetch.slept) - 1) : fetch.slept[i] < fetch.slept[i + 1]
        /\ \A i \in 1..Len(fetch.slept) : fetch.slept[i] > 0
        \* one sleep between two attempts
        /\ fetch.at = "attempting" => Len(fetch.slept) = n
        /\ fetch.at = "sleeping" => Len(fetch.slept) = n /\ n < MAX_RETRIES
        /\ fetch.at = "ended" =>
              /\ n >= 1 /\ Len(fetch.slept) = n - 1
              /\ LET last == fetch.responses[n]
                 IN  IF Answered(last)
                     THEN /\ ~IsRaise(fetch.result)
                          /\ IF last.kind = "response" /\ last.status = HTTP_OK
                             THEN fetch.result.value = Str(last.text)
                             ELSE fetch.result.value = None
                     ELSE /\ n = MAX_RETRIES
                          /\ IsRaise(fetch.result)
                          /\ fetch.result.exception = last.exception

\* C35: a page fetch under retry_on_failure(max_retries=3) ends after at
\* most 3 attempts: at the first attempt that returns (a page, or None for
\* a timeout or a status other than 200, which are not retried), with a
\* strictly longer sleep after each failed attempt, and by raising the
\* third attempt's exception when all three raised.
C35_FetchEndsWithinThreeAttempts ==
    /\ []RetriedAsStated
    /\ (fetch.at = "attempting") ~> (fetch.at = "ended")

\* the call has raised the exception of its third attempt after sleeping
\* 2 and 4 seconds
C35_Witness ==
    /\ fetch.at = "ended"
    /\ IsRaise(fetch.result)
    /\ Len(fetch.responses) = MAX_RETRIES
    /\ fetch.slept = << RETRY_DELAY, 2 * RETRY_DELAY >>

----------------------------------------------------------------------------
(* Further properties of DataOrchestrator and of the conversation cache *)

\* C36: after any sequence of update_source calls, tier runs and
\* update_all_sources runs, overlapping or not, and whether or not an
\* update ended with an exception, the statistics satisfy
\* total_updates = successful_updates + failed_updates.
C36_TotalIsSuccessfulPlusFailed ==
    stats.total_updates = stats.successful_updates + stats.failed_updates

\* what a request of conversation c for asset a is served from the cache
Served(store, c, a) == GetCachedAnalysis(store, c, a, now)

\* C37: the conversation cache is isolated per (conversation_id,
\* asset_symbol), whatever strings the identifiers are: writing the entry
\* of one pair changes what no other pair is served, and
\* clear_cache_for_context(c) removes every entry of conversation c and
\* changes what no other conversation is served.
C37_EntriesIsolatedPerConversationAndAsset ==
    [][/\ \A c \in AnyConversations, a \in AnyAssets, q \in Queries :
              CacheAnalysisForConversation(c, a, q) =>
                  \A c2 \in AnyConversations, a2 \in AnyAssets :
                      (c2 # c \/ a2 # a) => Served(cache', c2, a2) = Served(cache, c2, a2)
       /\ \A c \in AnyConversations :
              ClearCacheForContextCall(c) =>
                  /\ \A a2 \in AnyAssets : Served(cache', c, a2) = None
                  /\ \A c2 \in AnyConversations \ {c}, a2 \in AnyAssets :
                         Served(cache', c2, a2) = Served(cache, c2, a2)
      ]_vars

\* the age in minutes, at the request's lookup, of the entry it was served
ServedAge == (now - FromIsoFormat(cached_analysis.timestamp)) * TickMinutes

\* C38: the step that serves a follow-up from the conversation cache
\* leaves the cache as it was, so the entry's timestamp is not extended;
\* and no analysis is rebuilt from an entry written more than 30 minutes
\* before.
C38_ServingDoesNotExtendEntry ==
    /\ [][(pc # "Store" /\ pc' = "Store" /\ cached_analysis' # None)
             => cache' = cache]_vars
    /\ [](FromCache => /\ ServedAge <= FRESH_MINUTES
                       /\ cache[RequestKey] = cached_analysis)

\* a follow-up was served from an entry written earlier, and the entry
\* still carries the instant of its write
C38_Witness ==
    /\ FromCache /\ pc = "Returned"
    /\ seen_age >= 1
    /\ cache[RequestKey].timestamp = IsoFormat(now - seen_age)

\* C39: when the synthesis raises during a recompute, analyze raises to
\* its caller, and then the conversation cache holds no entry for the
\* request's (conversation_id, asset_symbol), neither a partial new one
\* nor the stale one the lookup evicted, no Analysis was produced, and
\* nothing was handed to the database.
C39_FailedRecomputeLeavesNoEntry ==
    /\ state = "Failed" => pc = "Raised"
    /\ (Scoped /\ pc = "Raised") =>
           /\ RequestKey \notin DOMAIN cache
           /\ analysis = None
           /\ stored = "no"

\* the request found a stale entry, and its synthesis has raised
C39_Witness ==
    /\ Scoped /\ pc = "Raised" /\ state = "Failed"
    /\ seen_age * TickMinutes > FRESH_MINUTES

----------------------------------------------------------------------------
(* Properties of RAGService.initialize *)

\* C40: when several operations are started side by side on one service
\* that is not initialized, and no initialize raises, the client, the
\* embedding model and the collections are created once only, and no
\* operation uses the service before initialization has completed.
C40_InitializedAtMostOnce ==
    /\ (\A o \in Operations : ops[o].at # "raised") =>
           /\ made.client <= 1
           /\ made.embedding_model <= 1
           /\ made.collections <= 1
    /\ \A o \in Operations : ops[o].at = "using" => initialized

====
